---- MODULE Spec2Model ----
(***************************************************************************)
(* Model of the query cache of firestore-helper (src/cache/cacheManager.ts)*)
(* and of the CRUD / listener operations that read, populate and           *)
(* invalidate it (src/core/operations/*.ts).                               *)
(*                                                                         *)
(* Strings are sequences of one-token strings, so that startsWith, split   *)
(* and concatenation are computed, not assumed: "users" is <<"u">>,        *)
(* "usersArchive" is <<"u","a">>, "users/1" is <<"u","/","1">>.            *)
(***************************************************************************)
EXTENDS Integers, Sequences, FiniteSets, TLC

VARIABLES
    cache,        \* CacheManager.cache: Map in insertion order, a sequence of entries
    config,       \* CacheManager.config
    cleanupTimer, \* CacheManager.cleanupTimer: "null" or "running"
    now,          \* Date.now()
    lastOp,       \* the operation that ran last: [op, key, ret]
    writtenAt,    \* history: for each stored key, the time of the set that wrote it
    useOrder,     \* history: stored keys, least recently written-or-hit first
    keyCall,      \* a call of the static createKey: [path, options, result]
    upstream,     \* the Firestore side: revision and existence of document users/1
    calls,        \* the CRUD calls in flight, by slot
    listener,     \* the listenData subscription
    handler,      \* the position of the snapshot callback
    crudEvent,    \* the CRUD step taken last
    instance,     \* CacheManager.instance: the number of the instance, 0 for null
    refs,         \* cacheInstance of each operation module, cache of the listener
    stores,       \* the map of every CacheManager built so far, by number
    reaper,       \* the cleanup interval: when it fires next, when configure ran last
    timers        \* the number of intervals of the instance the runtime holds active

cacheVars == <<cache, config, cleanupTimer, now, lastOp, writtenAt, useOrder>>
keyVars == <<keyCall>>
crudVars == <<upstream, calls, listener, handler, crudEvent>>
instVars == <<instance, refs, stores>>
vars == <<cacheVars, keyVars, crudVars, instVars, reaper, timers>>

----------------------------------------------------------------------------
(* Bounds *)

MaxTime == 2
MaxSizeLimit == 2

----------------------------------------------------------------------------
(* Strings *)

Null == "null"
Void == "void"
Undefined == "undefined"
\* `undefined` where a key (a string) is expected
NoKey == <<Undefined>>

\* String.prototype.startsWith
StartsWith(s, p) ==
    /\ Len(p) <= Len(s)
    /\ SubSeq(s, 1, Len(p)) = p

\* key.split(":")[0]: the text before the first ":" (the whole text when none)
RECURSIVE SplitFirst(_)
SplitFirst(s) ==
    IF s = <<>> THEN <<>>
    ELSE IF Head(s) = ":" THEN <<>>
    ELSE <<Head(s)>> \o SplitFirst(Tail(s))

----------------------------------------------------------------------------
(* The stored map *)

RECURSIVE KeysOf(_)
KeysOf(c) == IF c = <<>> THEN {} ELSE {Head(c).key} \cup KeysOf(Tail(c))

\* Map.prototype.has
MapHas(c, key) == \E i \in 1..Len(c) : c[i].key = key

\* Map.prototype.get (the entry; callers test MapHas first)
MapGet(c, key) == c[CHOOSE i \in 1..Len(c) : c[i].key = key]

\* Map.prototype.delete
RECURSIVE MapDelete(_, _)
MapDelete(c, key) ==
    IF c = <<>> THEN <<>>
    ELSE IF Head(c).key = key THEN Tail(c)
    ELSE <<Head(c)>> \o MapDelete(Tail(c), key)

\* Map.prototype.set: an existing key keeps its place, a new key goes last
MapSet(c, item) ==
    IF MapHas(c, item.key)
    THEN [i \in 1..Len(c) |-> IF c[i].key = item.key THEN item ELSE c[i]]
    ELSE Append(c, item)

\* Deleting every key a predicate selects (Array.filter + forEach delete)
RECURSIVE MapDeleteAll(_, _)
MapDeleteAll(c, doomed) ==
    IF c = <<>> THEN <<>>
    ELSE IF Head(c).key \in doomed THEN MapDeleteAll(Tail(c), doomed)
    ELSE <<Head(c)>> \o MapDeleteAll(Tail(c), doomed)

----------------------------------------------------------------------------
(* CacheManager.createKey *)

\* The property names the model uses, in the order Array.prototype.sort()
\* (UTF-16 code units) puts them.
SortedNames == <<"age", "docId", "isActive", "limit", "orderBy", "where">>

NameRank(n) == CHOOSE i \in 1..Len(SortedNames) : SortedNames[i] = n

\* An object is a sequence of [name, value] in property insertion order.
\* Object.keys(options)
ObjectKeys(obj) == [i \in 1..Len(obj) |-> obj[i].name]

\* options[key]
Lookup(obj, n) ==
    IF \E i \in 1..Len(obj) : obj[i].name = n
    THEN obj[CHOOSE i \in 1..Len(obj) : obj[i].name = n].value
    ELSE Undefined

\* Array.prototype.sort() on property names
RECURSIVE SortNames(_)
SortNames(names) ==
    IF names = <<>> THEN <<>>
    ELSE LET m == CHOOSE i \in 1..Len(names) :
                      \A j \in 1..Len(names) : NameRank(names[i]) <= NameRank(names[j])
             rest == [j \in 1..(Len(names) - 1) |-> IF j < m THEN names[j] ELSE names[j + 1]]
         IN  <<names[m]>> \o SortNames(rest)

\* .reduce((acc, key) => { if (options[key] !== undefined) acc[key] = options[key] }, {})
RECURSIVE ReduceDefined(_, _)
ReduceDefined(names, obj) ==
    IF names = <<>> THEN <<>>
    ELSE (IF Lookup(obj, Head(names)) # Undefined
          THEN <<[name |-> Head(names), value |-> Lookup(obj, Head(names))]>>
          ELSE <<>>) \o ReduceDefined(Tail(names), obj)

\* JSON.stringify of a flat object: {"name":value,...} in enumeration order
RECURSIVE JsonMembers(_)
JsonMembers(obj) ==
    IF obj = <<>> THEN <<>>
    ELSE <<Head(obj).name, ":", Head(obj).value>>
         \o (IF Tail(obj) = <<>> THEN <<>> ELSE <<",">> \o JsonMembers(Tail(obj)))

JsonStringify(obj) == <<"{">> \o JsonMembers(obj) \o <<"}">>

\* Mutant: the property names are not sorted
sortedOptions_unsorted(options) == ReduceDefined(ObjectKeys(options), options)

sortedOptions(options) == ReduceDefined(SortNames(ObjectKeys(options)), options)

createKey(path, options) == path \o <<":">> \o JsonStringify(sortedOptions(options))

----------------------------------------------------------------------------
(* CacheManager: the methods as functions of (cache, config, now) *)

\* Mutant: the age is taken from the last access, so a hit renews the entry
isExpired_byLastAccess(item, cfg, t) == t - item.lastAccessed > cfg.ttl

\* Mutant: the ttl is the one the instance was built with, whatever configure set
isExpired_initialTtl(item, cfg, t) == t - item.timestamp > 1

isExpired(item, cfg, t) == t - item.timestamp > cfg.ttl

\* The scan of removeLRU: (lruKey, lruTime) after visiting the entries in order
RECURSIVE LruScan(_, _, _)
LruScan(c, lruKey, lruTime) ==
    IF c = <<>> THEN lruKey
    ELSE IF Head(c).lastAccessed <= lruTime
         THEN LruScan(Tail(c), Head(c).key, Head(c).lastAccessed)
         ELSE LruScan(Tail(c), lruKey, lruTime)

\* What removeLRU deletes: NoKey when nothing (or a falsy, empty key) is chosen
lruVictim(c, t) ==
    IF Len(c) = 0 THEN NoKey
    ELSE LET k == LruScan(c, NoKey, t)
         IN  IF k = <<>> THEN NoKey ELSE k

removeLRU(c, t) ==
    IF lruVictim(c, t) = NoKey THEN c ELSE MapDelete(c, lruVictim(c, t))

\* Mutant: set keeps the value of a key that is already stored
set_keepFirst(c, cfg, t, key, data) ==
    IF ~cfg.enabled \/ MapHas(c, key) THEN c
    ELSE LET c1 == IF Len(c) >= cfg.maxSize THEN removeLRU(c, t) ELSE c
         IN  MapSet(c1, [key |-> key, data |-> data, timestamp |-> t, lastAccessed |-> t])

\* Mutant: set evicts an expired entry when there is one, the LRU entry otherwise
set_evictsDeadFirst(c, cfg, t, key, data) ==
    IF ~cfg.enabled THEN c
    ELSE LET dead == {k \in KeysOf(c) : isExpired(MapGet(c, k), cfg, t)}
             c1 == IF Len(c) >= cfg.maxSize
                   THEN IF dead # {} THEN MapDelete(c, CHOOSE k \in dead : TRUE)
                        ELSE removeLRU(c, t)
                   ELSE c
         IN  MapSet(c1, [key |-> key, data |-> data, timestamp |-> t, lastAccessed |-> t])

\* Mutant: set never evicts
set_noEvict(c, cfg, t, key, data) ==
    IF ~cfg.enabled THEN c
    ELSE MapSet(c, [key |-> key, data |-> data, timestamp |-> t, lastAccessed |-> t])

\* set(key, data): the cache afterwards
set(c, cfg, t, key, data) ==
    IF ~cfg.enabled THEN c
    ELSE LET c1 == IF Len(c) >= cfg.maxSize THEN removeLRU(c, t) ELSE c
         IN  MapSet(c1, [key |-> key, data |-> data, timestamp |-> t, lastAccessed |-> t])

\* Mutant: get does not look at config.enabled
getResult_ignoreEnabled(c, cfg, t, key) ==
    IF ~MapHas(c, key) THEN Null
    ELSE IF isExpired(MapGet(c, key), cfg, t) THEN Null
    ELSE MapGet(c, key).data

\* get(key): the value returned
getResult(c, cfg, t, key) ==
    IF ~cfg.enabled THEN Null
    ELSE IF ~MapHas(c, key) THEN Null
    ELSE IF isExpired(MapGet(c, key), cfg, t) THEN Null
    ELSE MapGet(c, key).data

\* Mutant: a hit renews the entry, timestamp included
getCache_renews(c, cfg, t, key) ==
    IF ~cfg.enabled THEN c
    ELSE IF ~MapHas(c, key) THEN c
    ELSE IF isExpired(MapGet(c, key), cfg, t) THEN MapDelete(c, key)
    ELSE MapSet(c, [MapGet(c, key) EXCEPT !.lastAccessed = t, !.timestamp = t])

\* Mutant: has counts as an access
hasCache_touches(c, cfg, t, key) == getCache_renews(c, cfg, t, key)

\* get(key): the cache afterwards
getCache(c, cfg, t, key) ==
    IF ~cfg.enabled THEN c
    ELSE IF ~MapHas(c, key) THEN c
    ELSE IF isExpired(MapGet(c, key), cfg, t) THEN MapDelete(c, key)
    ELSE MapSet(c, [MapGet(c, key) EXCEPT !.lastAccessed = t])

\* has(key): the value returned
hasResult(c, cfg, t, key) ==
    IF ~cfg.enabled THEN FALSE
    ELSE IF ~MapHas(c, key) THEN FALSE
    ELSE ~isExpired(MapGet(c, key), cfg, t)

\* has(key): the cache afterwards
hasCache(c, cfg, t, key) ==
    IF ~cfg.enabled THEN c
    ELSE IF ~MapHas(c, key) THEN c
    ELSE IF isExpired(MapGet(c, key), cfg, t) THEN MapDelete(c, key)
    ELSE c

\* Mutant: remove empties the map when it finds the key
remove_clears(c, key) == IF MapHas(c, key) THEN <<>> ELSE c

remove(c, key) == IF MapHas(c, key) THEN MapDelete(c, key) ELSE c

clear(c) == <<>>

\* Mutant: a plain prefix test, without the "/" that ends the path
byPathMatches_prefix(key, path) ==
    LET cachePath == SplitFirst(key)
    IN  cachePath = path \/ StartsWith(cachePath, path)

\* The filter of invalidateByPath
byPathMatches(key, path) ==
    LET cachePath == SplitFirst(key)
    IN  cachePath = path \/ StartsWith(cachePath, path \o <<"/">>)

\* Mutant: invalidateByPath deletes the first matching key only
invalidateByPath_firstOnly(c, cfg, path) ==
    IF ~cfg.enabled THEN c
    ELSE LET hits == SelectSeq(c, LAMBDA e : byPathMatches(e.key, path))
         IN  IF hits = <<>> THEN c ELSE MapDelete(c, Head(hits).key)

\* Mutant: invalidateByPath does not look at config.enabled
invalidateByPath_whileDisabled(c, cfg, path) ==
    MapDeleteAll(c, {k \in KeysOf(c) : byPathMatches(k, path)})

invalidateByPath(c, cfg, path) ==
    IF ~cfg.enabled THEN c
    ELSE MapDeleteAll(c, {k \in KeysOf(c) : byPathMatches(k, path)})

\* Mutant: a plain prefix test, without the ":" or "/" that ends the path
collectionMatches_prefix(key, collectionPath) == StartsWith(key, collectionPath)

\* The filter of invalidateCollection
collectionMatches(key, collectionPath) ==
    \/ StartsWith(key, collectionPath \o <<":">>)
    \/ StartsWith(key, collectionPath \o <<"/">>)

invalidateCollection(c, cfg, collectionPath) ==
    IF ~cfg.enabled THEN c
    ELSE MapDeleteAll(c, {k \in KeysOf(c) : collectionMatches(k, collectionPath)})

\* The callback of startCleanupTimer's setInterval
\* Mutant: the sweep removes an entry as soon as its age reaches ttl
cleanup_inclusive(c, cfg, t) ==
    IF ~cfg.enabled THEN c
    ELSE MapDeleteAll(c, {k \in KeysOf(c) : t - MapGet(c, k).timestamp >= cfg.ttl})

\* Mutant: the sweep takes the age from the last access
cleanup_byLastAccess(c, cfg, t) ==
    IF ~cfg.enabled THEN c
    ELSE MapDeleteAll(c, {k \in KeysOf(c) : t - MapGet(c, k).lastAccessed > cfg.ttl})

cleanup(c, cfg, t) ==
    IF ~cfg.enabled THEN c
    ELSE MapDeleteAll(c, {k \in KeysOf(c) : t - MapGet(c, k).timestamp > cfg.ttl})

\* The configuration the constructor builds from no argument
DefaultTtl == 300000
DefaultMaxSize == 100
DefaultCleanupInterval == 60000

DefaultConfig ==
    [ttl |-> DefaultTtl, maxSize |-> DefaultMaxSize, enabled |-> TRUE,
     cleanupInterval |-> DefaultCleanupInterval]

\* Mutant: configure starts from the defaults, not from the configuration held
configure_reset(cfg, patch) ==
    [f \in DOMAIN cfg |-> IF f \in DOMAIN patch THEN patch[f] ELSE DefaultConfig[f]]

\* configure(config): { ...this.config, ...config }
configure(cfg, patch) ==
    [f \in DOMAIN cfg |-> IF f \in DOMAIN patch THEN patch[f] ELSE cfg[f]]

----------------------------------------------------------------------------
(* The inputs the operations are called with *)

TtlValues == {0, 1}
\* Payloads are opaque to the cache. The payload handed to set at time t is
\* named after t, so that two writes at different times are told apart.
PayloadNames == <<"v0", "v1", "v2", "v3", "v4">>
Payload(t) == PayloadNames[t + 1]

users == <<"u">>
usersDoc == <<"u", "/", "1">>
usersArchive == <<"u", "a">>
posts == <<"p">>

Paths == {users, usersDoc, usersArchive, posts}

\* The keys the cache API is called with: the canonical key of each path's
\* unfiltered query.
KeyUniverse == {createKey(p, <<>>) : p \in Paths}

ConfigPatches ==
    {[enabled |-> b] : b \in BOOLEAN}
    \cup {[ttl |-> t] : t \in TtlValues}
    \cup {[maxSize |-> m] : m \in 1..MaxSizeLimit}
    \cup {[cleanupInterval |-> 1]}

\* No createKey call in progress
NoKeyCall == [path |-> NoKey, options |-> <<>>, result |-> NoKey]

----------------------------------------------------------------------------
(* History variables *)

Touch(order, k) == SelectSeq(order, LAMBDA x : x # k) \o <<k>>

\* The history after an operation left the map as c2, having written key
\* `written` and written-or-hit key `touched` (NoKey for none).
History(c2, written, touched) ==
    /\ writtenAt' = [x \in KeysOf(c2) |->
                        IF x = written THEN now
                        ELSE IF x \in DOMAIN writtenAt THEN writtenAt[x] ELSE -1]
    /\ useOrder' = SelectSeq(IF touched = NoKey THEN useOrder ELSE Touch(useOrder, touched),
                             LAMBDA x : x \in KeysOf(c2))

\* What the last operation was: its name, its key or path argument, the value it
\* returned, the message it logged and the number of entries it deleted.
Op(name, key, ret, log) ==
    [op |-> name, key |-> key, ret |-> ret, log |-> log,
     removed |-> Cardinality(KeysOf(cache) \ KeysOf(cache'))]

\* The message get logs (logger.debug), "" when it logs none
getLog(c, cfg, t, key) ==
    IF ~cfg.enabled THEN ""
    ELSE IF ~MapHas(c, key) THEN "miss"
    ELSE IF isExpired(MapGet(c, key), cfg, t) THEN "expired"
    ELSE "hit"

----------------------------------------------------------------------------
(* The CRUD layer: its calls, and the Firestore side they await *)

MaxCalls == 1
MaxWrites == 1
MaxInstances == 2
StampedeCalls == 2
MaxReapTime == 4
CrudMaxSize == 2

\* A slot with no call in flight
Idle ==
    [fn |-> "idle", path |-> <<>>, docId |-> Undefined, limit |-> Undefined,
     useCache |-> FALSE, cacheTTL |-> 0, silent |-> FALSE, hasData |-> FALSE,
     phase |-> "idle", snapshot |-> Null, via |-> "none"]

\* state: what the transport holds; onError: the caller supplied onError;
\* errored: a listen error was reported; cancelled: the handle was invoked
NoListener ==
    [state |-> "none", path |-> <<>>, docId |-> Undefined, pending |-> FALSE,
     onError |-> FALSE, errored |-> FALSE, cancelled |-> FALSE]
HandlerIdle == [phase |-> "idle", path |-> <<>>, data |-> Null]
NoEvent ==
    [fn |-> "none", kind |-> "none", path |-> <<>>, docId |-> Undefined,
     wrote |-> FALSE, afterWrite |-> FALSE]

\* The operation modules that keep a reference to the cache
Modules == {"getData", "updateData", "deleteData", "listenData"}

\* One CacheManager was built, no operation module has asked for it yet
InstIdle ==
    /\ instance = 1
    /\ refs = [m \in Modules |-> 0]
    /\ stores = <<<<>>>>

\* The constructor started the cleanup interval, configure was never called
ReaperIdle ==
    reaper = [due |-> now + config.cleanupInterval, period |-> config.cleanupInterval,
              configuredAt |-> -1]

\* The interval the constructor started is the only one
TimersIdle == timers = 1

\* No CRUD call was made yet
CrudIdle ==
    /\ upstream = [rev |-> 0, exists |-> TRUE]
    /\ calls = [i \in 1..MaxCalls |-> Idle]
    /\ listener = NoListener
    /\ handler = HandlerIdle
    /\ crudEvent = NoEvent

----------------------------------------------------------------------------
(* The cache API, one action per call *)

Tick ==
    /\ now < MaxTime
    /\ now' = now + 1
    /\ UNCHANGED <<cache, config, cleanupTimer, lastOp, writtenAt, useOrder, keyVars, timers, reaper, instVars, crudVars>>

Set(key, data) ==
    /\ cache' = set(cache, config, now, key, data)
    /\ lastOp' = Op("set", key, Void, "")
    /\ IF config.enabled THEN History(cache', key, key) ELSE History(cache', NoKey, NoKey)
    /\ UNCHANGED <<config, cleanupTimer, now, keyVars, timers, reaper, instVars, crudVars>>

Get(key) ==
    /\ cache' = getCache(cache, config, now, key)
    /\ lastOp' = Op("get", key, getResult(cache, config, now, key), getLog(cache, config, now, key))
    /\ IF getResult(cache, config, now, key) # Null
       THEN History(cache', NoKey, key) ELSE History(cache', NoKey, NoKey)
    /\ UNCHANGED <<config, cleanupTimer, now, keyVars, timers, reaper, instVars, crudVars>>

Has(key) ==
    /\ cache' = hasCache(cache, config, now, key)
    /\ lastOp' = Op("has", key, IF hasResult(cache, config, now, key) THEN "true" ELSE "false", "")
    /\ History(cache', NoKey, NoKey)
    /\ UNCHANGED <<config, cleanupTimer, now, keyVars, timers, reaper, instVars, crudVars>>

Remove(key) ==
    /\ cache' = remove(cache, key)
    /\ lastOp' = Op("remove", key, Void, "")
    /\ History(cache', NoKey, NoKey)
    /\ UNCHANGED <<config, cleanupTimer, now, keyVars, timers, reaper, instVars, crudVars>>

Clear ==
    /\ cache' = clear(cache)
    /\ lastOp' = Op("clear", NoKey, Void, "")
    /\ History(cache', NoKey, NoKey)
    /\ UNCHANGED <<config, cleanupTimer, now, keyVars, timers, reaper, instVars, crudVars>>

InvalidateByPath(path) ==
    /\ cache' = invalidateByPath(cache, config, path)
    /\ lastOp' = Op("invalidateByPath", path, Void, "")
    /\ History(cache', NoKey, NoKey)
    /\ UNCHANGED <<config, cleanupTimer, now, keyVars, timers, reaper, instVars, crudVars>>

InvalidateCollection(path) ==
    /\ cache' = invalidateCollection(cache, config, path)
    /\ lastOp' = Op("invalidateCollection", path, Void, "")
    /\ History(cache', NoKey, NoKey)
    /\ UNCHANGED <<config, cleanupTimer, now, keyVars, timers, reaper, instVars, crudVars>>

Configure(patch) ==
    /\ config' = configure(config, patch)
    /\ cleanupTimer' = IF "cleanupInterval" \in DOMAIN patch /\ patch.cleanupInterval # 0
                       THEN "running" ELSE cleanupTimer
    /\ UNCHANGED <<cache, now, writtenAt, useOrder, keyVars, timers, reaper, instVars, crudVars>>
    /\ lastOp' = Op("configure", NoKey, Void, "")

\* One firing of the cleanup interval
Sweep ==
    /\ cleanupTimer = "running"
    /\ cache' = cleanup(cache, config, now)
    /\ lastOp' = Op("sweep", NoKey, Void, "")
    /\ History(cache', NoKey, NoKey)
    /\ UNCHANGED <<config, cleanupTimer, now, keyVars, timers, reaper, instVars, crudVars>>

\* The state after getInstance(config) built the instance
Init ==
    /\ cache = <<>>
    /\ config \in {[ttl |-> t, maxSize |-> m, enabled |-> TRUE, cleanupInterval |-> 1] :
                      t \in TtlValues, m \in 1..MaxSizeLimit}
    /\ cleanupTimer = "running"
    /\ now = 0
    /\ lastOp = [op |-> "getInstance", key |-> NoKey, ret |-> Void, log |-> "", removed |-> 0]
    /\ writtenAt = <<>>
    /\ useOrder = <<>>
    /\ keyCall = NoKeyCall
    /\ CrudIdle
    /\ InstIdle
    /\ ReaperIdle
    /\ TimersIdle

Next ==
    \/ Tick
    \/ \E key \in KeyUniverse : Set(key, Payload(now))
    \/ \E key \in KeyUniverse : Get(key)
    \/ \E key \in KeyUniverse : Has(key)
    \/ \E key \in KeyUniverse : Remove(key)
    \/ Clear
    \/ \E path \in Paths : InvalidateByPath(path)
    \/ \E path \in Paths : InvalidateCollection(path)
    \/ \E patch \in ConfigPatches : Configure(patch)
    \/ Sweep

Spec == Init /\ [][Next]_vars

----------------------------------------------------------------------------
(* The cleanup interval in time: setInterval(callback, cleanupInterval) *)

\* Date.now() advances by a millisecond; an interval that is due fires first
TimedTick ==
    /\ now < MaxReapTime
    /\ cleanupTimer = "running" => now < reaper.due
    /\ now' = now + 1
    /\ UNCHANGED <<cache, config, cleanupTimer, lastOp, writtenAt, useOrder, keyVars, timers,
                   instVars, crudVars, reaper>>

\* The interval callback runs when it is due, and is due again one period
\* (the cleanupInterval the timer was started with) later
TimerFires ==
    /\ cleanupTimer = "running"
    /\ now = reaper.due
    /\ cache' = cleanup(cache, config, now)
    /\ lastOp' = Op("sweep", NoKey, Void, "")
    /\ History(cache', NoKey, NoKey)
    /\ reaper' = [reaper EXCEPT !.due = now + reaper.period]
    /\ UNCHANGED <<config, cleanupTimer, now, keyVars, timers, instVars, crudVars>>

\* configure(config): a truthy cleanupInterval clears the interval and starts
\* a new one
TimedConfigure(patch) ==
    LET restarts == "cleanupInterval" \in DOMAIN patch /\ patch.cleanupInterval # 0
    IN  /\ config' = configure(config, patch)
        /\ cleanupTimer' = IF restarts THEN "running" ELSE cleanupTimer
        /\ reaper' = [due |-> IF restarts THEN now + config'.cleanupInterval ELSE reaper.due,
                      period |-> IF restarts THEN config'.cleanupInterval ELSE reaper.period,
                      configuredAt |-> now]
        /\ UNCHANGED <<cache, now, writtenAt, useOrder, keyVars, timers, instVars, crudVars>>
        /\ lastOp' = Op("configure", NoKey, Void, "")

ReapKeys == {createKey(users, <<>>), createKey(posts, <<>>)}

ReapPatches ==
    {[enabled |-> b] : b \in BOOLEAN}
    \cup {[ttl |-> 1]}
    \cup {[cleanupInterval |-> 2]}

ReapInit ==
    /\ cache = <<>>
    /\ config \in {[ttl |-> t, maxSize |-> 2, enabled |-> TRUE, cleanupInterval |-> c] :
                      t \in TtlValues, c \in {1, 2}}
    /\ cleanupTimer = "running"
    /\ now = 0
    /\ lastOp = [op |-> "getInstance", key |-> NoKey, ret |-> Void, log |-> "", removed |-> 0]
    /\ writtenAt = <<>>
    /\ useOrder = <<>>
    /\ keyCall = NoKeyCall
    /\ CrudIdle
    /\ InstIdle
    /\ ReaperIdle
    /\ TimersIdle

ReapNext ==
    \/ TimedTick
    \/ TimerFires
    \/ \E key \in ReapKeys : Set(key, Payload(0))
    \/ \E key \in ReapKeys : Get(key)
    \/ \E patch \in ReapPatches : TimedConfigure(patch)

ReapSpec == ReapInit /\ [][ReapNext]_vars

----------------------------------------------------------------------------
(* The life of the cleanup interval: started, restarted, stopped *)

\* A timer is [handle, active]: this.cleanupTimer ("null" or "running") and
\* the number of intervals of the instance that the runtime holds active.
\* Mutant: startCleanupTimer without its clearInterval
startCleanupTimer_noClear(t) == [handle |-> "running", active |-> t.active + 1]

\* startCleanupTimer(): clearInterval of the interval held, then setInterval
startCleanupTimer(t) ==
    [handle |-> "running",
     active |-> (IF t.handle # "null" THEN t.active - 1 ELSE t.active) + 1]

\* stopCleanupTimer(): clearInterval of the interval held, if any
stopCleanupTimer(t) ==
    IF t.handle # "null" THEN [handle |-> "null", active |-> t.active - 1] ELSE t

\* Mutant: configure restarts the interval whatever it is given
restartsTimer_always(patch) == TRUE

\* if (config.cleanupInterval): configure restarts the interval
restartsTimer(patch) == "cleanupInterval" \in DOMAIN patch /\ patch.cleanupInterval # 0

TheTimer == [handle |-> cleanupTimer, active |-> timers]

\* The callback of an active interval runs when it is due
IntervalFires ==
    /\ timers > 0
    /\ now = reaper.due
    /\ cache' = cleanup(cache, config, now)
    /\ lastOp' = Op("sweep", NoKey, Void, "")
    /\ History(cache', NoKey, NoKey)
    /\ reaper' = [reaper EXCEPT !.due = now + reaper.period]
    /\ UNCHANGED <<config, cleanupTimer, now, keyVars, instVars, crudVars, timers>>

\* configure(config) with the runtime's intervals
ConfigureTimer(patch) ==
    /\ config' = configure(config, patch)
    /\ cleanupTimer' = IF restartsTimer(patch) THEN startCleanupTimer(TheTimer).handle
                       ELSE cleanupTimer
    /\ timers' = IF restartsTimer(patch) THEN startCleanupTimer(TheTimer).active ELSE timers
    /\ reaper' = IF restartsTimer(patch)
                 THEN [due |-> now + config'.cleanupInterval,
                       period |-> config'.cleanupInterval, configuredAt |-> now]
                 ELSE [reaper EXCEPT !.configuredAt = now]
    /\ UNCHANGED <<cache, now, writtenAt, useOrder, keyVars, instVars, crudVars>>
    /\ lastOp' = Op("configure", NoKey, Void, "")

\* stopCleanupTimer() called by the application
StopCleanupTimer ==
    /\ cleanupTimer' = stopCleanupTimer(TheTimer).handle
    /\ timers' = stopCleanupTimer(TheTimer).active
    /\ UNCHANGED <<cache, config, now, writtenAt, useOrder, keyVars, instVars, crudVars, reaper>>
    /\ lastOp' = Op("stopCleanupTimer", NoKey, Void, "")

\* destroy(): stopCleanupTimer(), cache.clear(), CacheManager.instance = null
DestroyInstance ==
    /\ instance # 0
    /\ cleanupTimer' = stopCleanupTimer(TheTimer).handle
    /\ timers' = stopCleanupTimer(TheTimer).active
    /\ cache' = clear(cache)
    /\ History(cache', NoKey, NoKey)
    /\ instance' = 0
    /\ lastOp' = Op("destroy", NoKey, Void, "")
    /\ UNCHANGED <<config, now, keyVars, crudVars, refs, stores, reaper>>

TimerPatches ==
    {[enabled |-> b] : b \in BOOLEAN}
    \cup {[ttl |-> 1], [maxSize |-> 1]}
    \cup {[cleanupInterval |-> c] : c \in {1, 2}}

TimerNext ==
    \/ TimedTick
    \/ IntervalFires
    \/ Set(createKey(users, <<>>), Payload(0))
    \/ \E patch \in TimerPatches : ConfigureTimer(patch)
    \/ StopCleanupTimer
    \/ DestroyInstance

TimerSpec == ReapInit /\ [][TimerNext]_vars

\* Invalidation called with the empty path, over stores that hold keys of the
\* empty path and of a path with a leading "/"
EmptyPathKeys == {createKey(<<>>, <<>>), createKey(<<"/">> \o users, <<>>), createKey(users, <<>>)}

EmptyPathNext ==
    \/ Tick
    \/ \E key \in EmptyPathKeys : Set(key, Payload(now))
    \/ \E key \in EmptyPathKeys : Get(key)
    \/ InvalidateByPath(<<>>)
    \/ InvalidateCollection(<<>>)

EmptyPathSpec == Init /\ [][EmptyPathNext]_vars

\* Invalidation by paths with and without a ":" in them, over the keys
\* createKey builds for these paths: "users/a:b" is a document path whose id
\* holds a ":"
colonDoc == <<"u", "/", "a", ":", "b">>

ColonPaths == {users, colonDoc}

ColonSelectors == {<<>>, <<[name |-> "limit", value |-> "5"]>>}

ColonNext ==
    \/ Tick
    \/ \E path \in ColonPaths, options \in ColonSelectors :
          Set(createKey(path, options), Payload(now))
    \/ \E path \in ColonPaths, options \in ColonSelectors : Get(createKey(path, options))
    \/ \E path \in ColonPaths : InvalidateByPath(path)

ColonSpec == Init /\ [][ColonNext]_vars

\* The instance built by getInstance({ maxSize }) with a capacity of zero or less
MisconfiguredInit ==
    /\ cache = <<>>
    /\ config \in {[ttl |-> t, maxSize |-> m, enabled |-> TRUE, cleanupInterval |-> 1] :
                      t \in TtlValues, m \in {0, -1}}
    /\ cleanupTimer = "running"
    /\ now = 0
    /\ lastOp = [op |-> "getInstance", key |-> NoKey, ret |-> Void, log |-> "", removed |-> 0]
    /\ writtenAt = <<>>
    /\ useOrder = <<>>
    /\ keyCall = NoKeyCall
    /\ CrudIdle
    /\ InstIdle
    /\ ReaperIdle
    /\ TimersIdle

MisconfiguredNext ==
    \/ Tick
    \/ \E key \in KeyUniverse : Set(key, Payload(now))
    \/ \E key \in KeyUniverse : Get(key)
    \/ \E key \in KeyUniverse : Has(key)
    \/ Sweep

MisconfiguredSpec == MisconfiguredInit /\ [][MisconfiguredNext]_vars

----------------------------------------------------------------------------
(* createKey as a pure function: the inputs are drawn, the call applies it *)

KeyNames == {"age", "isActive", "limit"}
KeyValues == {Undefined, "25", "true"}

\* Every object over KeyNames and KeyValues, in every property insertion order
Objects ==
    {o \in UNION {[1..n -> [name : KeyNames, value : KeyValues]] : n \in 0..Cardinality(KeyNames)} :
        \A i, j \in 1..Len(o) : i # j => o[i].name # o[j].name}

\* The map createKey is called beside
KeySpecCache ==
    <<[key |-> createKey(users, <<>>), data |-> Payload(0), timestamp |-> 0, lastAccessed |-> 0]>>

KeyInput(path, options) ==
    /\ keyCall' = [path |-> path, options |-> options, result |-> NoKey]
    /\ UNCHANGED <<cacheVars, crudVars, instVars, reaper, timers>>

CreateKeyCall ==
    /\ keyCall.path # NoKey
    /\ keyCall.result = NoKey
    /\ keyCall' = [keyCall EXCEPT !.result = createKey(keyCall.path, keyCall.options)]
    /\ UNCHANGED <<cacheVars, crudVars, instVars, reaper, timers>>

KeyInit ==
    /\ cache = KeySpecCache
    /\ config = [ttl |-> 1, maxSize |-> MaxSizeLimit, enabled |-> TRUE, cleanupInterval |-> 1]
    /\ cleanupTimer = "running"
    /\ now = 0
    /\ lastOp = [op |-> "set", key |-> createKey(users, <<>>), ret |-> Void, log |-> "", removed |-> 0]
    /\ writtenAt = [k \in {createKey(users, <<>>)} |-> 0]
    /\ useOrder = <<createKey(users, <<>>)>>
    /\ keyCall = NoKeyCall
    /\ CrudIdle
    /\ InstIdle
    /\ ReaperIdle
    /\ TimersIdle

KeyNext ==
    \/ \E path \in {users, usersDoc}, options \in Objects : KeyInput(path, options)
    \/ CreateKeyCall

KeySpec == KeyInit /\ [][KeyNext]_vars

\* The (name, value) pairs of an object whose value is defined
DefinedPairs(o) == {<<o[i].name, o[i].value>> : i \in {j \in 1..Len(o) : o[j].value # Undefined}}

\* C10. Key determinism: the key createKey returned is the key it returns for
\* every object with the same defined (name, value) pairs, whatever the insertion
\* order and the undefined properties; the call leaves the cache as it was.
KeyDeterminism ==
    keyCall.result # NoKey =>
        /\ \A o \in Objects :
              DefinedPairs(o) = DefinedPairs(keyCall.options)
                  => createKey(keyCall.path, o) = keyCall.result
        /\ cache = KeySpecCache

\* createKey("users", {isActive: true, limit: undefined, age: 25}) returned
\* users:{"age":25,"isActive":true}
KeyDeterminismWitness ==
    /\ keyCall.path = users
    /\ keyCall.options = <<[name |-> "isActive", value |-> "true"],
                           [name |-> "limit", value |-> Undefined],
                           [name |-> "age", value |-> "25"]>>
    /\ keyCall.result = <<"u", ":", "{", "age", ":", "25", ",", "isActive", ":", "true", "}">>

----------------------------------------------------------------------------
(* getData, updateData, deleteData, createData and listenData *)

\* The options getData hands to createKey: { docId, where, orderBy, limit }
selectorOf(call) ==
    <<[name |-> "docId", value |-> call.docId],
      [name |-> "where", value |-> Undefined],
      [name |-> "orderBy", value |-> Undefined],
      [name |-> "limit", value |-> call.limit]>>

\* Mutant: the key is built from the path alone
cacheKeyOf_pathOnly(call) ==
    IF call.useCache THEN createKey(call.path, <<>>) ELSE NoKey

\* Mutant: the key is built whatever useCache says
cacheKeyOf_always(call) == createKey(call.path, selectorOf(call))

\* const cacheKey = useCache ? CacheManager.createKey(...) : null
cacheKeyOf(call) ==
    IF call.useCache THEN createKey(call.path, selectorOf(call)) ELSE NoKey

\* What getDoc / getDocs resolve with: the document or query result as of the
\* current revision ("missing" for a document that does not exist). Every
\* call of the model is on "users" and its document "1".
fetched(call) ==
    IF call.docId # Undefined /\ ~upstream.exists THEN "missing"
    ELSE Payload(upstream.rev)

\* Mutant: a write removes the document's entry only
invalidateWritten_docOnly(c, cfg, path, docId) ==
    remove(c, createKey(path, <<[name |-> "docId", value |-> docId]>>))

\* getCache().remove(createKey(path, { docId })); getCache().invalidateCollection(path)
invalidateWritten(c, cfg, path, docId) ==
    invalidateCollection(remove(c, createKey(path, <<[name |-> "docId", value |-> docId]>>)),
                         cfg, path)

\* Mutant: the snapshot callback leaves the cache alone
invalidateOnSnapshot_skip(c, cfg, path) == c

\* cache.invalidateByPath(path) of the snapshot callbacks
invalidateOnSnapshot(c, cfg, path) == invalidateByPath(c, cfg, path)

CrudEvent(fn, kind, call, wrote, afterWrite) ==
    [fn |-> fn, kind |-> kind, path |-> call.path, docId |-> call.docId,
     wrote |-> wrote, afterWrite |-> afterWrite]

\* The writes in flight or applied: the bound on the number of writes
WritesBegun ==
    upstream.rev + Cardinality({i \in DOMAIN calls :
        calls[i].fn \in {"updateData", "deleteData", "createData"} /\ calls[i].phase = "awaiting"})

\* The previous step was the successful return of a write to this path which
\* removed entries
AfterWrite(path) ==
    /\ lastOp.op \in {"updateData", "deleteData"}
    /\ lastOp.ret = "ok"
    /\ lastOp.key = path
    /\ lastOp.removed >= 1

\* getData from its cache lookup to its first await (or its return on a hit),
\* run in slot i on behalf of `via`
GetDataBegin(i, call, via) ==
    LET cacheKey == cacheKeyOf(call)
        cachedData == IF cacheKey = NoKey THEN Null
                      ELSE getResult(cache, config, now, cacheKey)
    IN  /\ cache' = IF cacheKey = NoKey THEN cache
                    ELSE getCache(cache, config, now, cacheKey)
        /\ IF cachedData # Null
           THEN /\ calls' = [calls EXCEPT ![i] = Idle]
                /\ crudEvent' = CrudEvent(via, "hit", call, via = "createData", AfterWrite(call.path))
                /\ lastOp' = Op(via, call.path, cachedData, "hit")
                /\ History(cache', NoKey, cacheKey)
           ELSE /\ calls' = [calls EXCEPT ![i] =
                                [call EXCEPT !.fn = "getData", !.phase = "awaiting", !.via = via]]
                /\ crudEvent' = CrudEvent(via, "miss", call, via = "createData", AfterWrite(call.path))
                /\ lastOp' = Op(via, call.path, Void, "miss")
                /\ History(cache', NoKey, NoKey)
        /\ UNCHANGED <<config, cleanupTimer, now, keyVars, timers, reaper, instVars, upstream, listener, handler>>

\* A call that returns an error before touching the cache or the network
Rejected(fn, call) ==
    /\ UNCHANGED <<cache, config, cleanupTimer, now, writtenAt, useOrder, keyVars, timers, reaper, instVars,
                   upstream, calls, listener, handler>>
    /\ crudEvent' = CrudEvent(fn, "error", call, FALSE, FALSE)
    /\ lastOp' = Op(fn, call.path, "error", "validation")

\* The snapshot callback runs to completion: no call starts or resumes between
\* its invalidation and its call of onNext.
\* The slot a new call takes: the first free one
FreeSlot(i) ==
    /\ handler.phase = "idle"
    /\ calls[i] = Idle
    /\ \A j \in 1..(i - 1) : calls[j] # Idle

GetDataCall(i, call) ==
    /\ FreeSlot(i)
    /\ IF call.path = <<>>
       THEN Rejected("getData", call)
       ELSE GetDataBegin(i, call, "getData")

\* getDoc / getDocs settles: the read is served, or fails
ServeRead(i, fail) ==
    /\ handler.phase = "idle"
    /\ calls[i].fn = "getData"
    /\ calls[i].phase = "awaiting"
    /\ calls' = [calls EXCEPT ![i].phase = "settled",
                              ![i].snapshot = IF fail THEN "rejected" ELSE fetched(calls[i])]
    /\ UNCHANGED <<cacheVars, keyVars, timers, reaper, instVars, upstream, listener, handler, crudEvent>>

\* Mutant: whatever the fetch settled with is stored
storesFetched_always(call) == cacheKeyOf(call) # NoKey

\* Whether getData stores what its fetch settled with: not after the catch, not
\* after NotFound, not without a cache key
storesFetched(call) ==
    /\ call.snapshot \notin {"rejected", "missing"}
    /\ cacheKeyOf(call) # NoKey

\* getData after its await: NotFound and failures are returned uncached, a
\* result is stored (under the call's cacheTTL, when given) and returned
GetDataResume(i) ==
    LET call == calls[i]
        cacheKey == cacheKeyOf(call)
        ok == call.snapshot \notin {"rejected", "missing"}
        storing == storesFetched(call)
    IN  /\ handler.phase = "idle"
        /\ call.fn = "getData"
        /\ call.phase = "settled"
        /\ config' = IF storing /\ call.cacheTTL # 0
                     THEN configure(config, [ttl |-> call.cacheTTL]) ELSE config
        /\ cache' = IF storing THEN set(cache, config', now, cacheKey, call.snapshot) ELSE cache
        /\ IF storing /\ config'.enabled
           THEN History(cache', cacheKey, cacheKey) ELSE History(cache', NoKey, NoKey)
        /\ calls' = [calls EXCEPT ![i] = Idle]
        /\ crudEvent' = CrudEvent(call.via, IF ok THEN "return" ELSE "error", call, FALSE, FALSE)
        /\ lastOp' = Op(call.via, call.path, IF ok THEN call.snapshot ELSE "error", "fetched")
        /\ UNCHANGED <<cleanupTimer, now, keyVars, timers, reaper, instVars, upstream, listener, handler>>

\* A write up to its await
WriteBegin(i, fn, call) ==
    /\ WritesBegun < MaxWrites
    /\ UNCHANGED <<cache, config, cleanupTimer, now, writtenAt, useOrder, keyVars, timers, reaper, instVars,
                   upstream, listener, handler>>
    /\ calls' = [calls EXCEPT ![i] = [call EXCEPT !.fn = fn, !.phase = "awaiting", !.via = fn]]
    /\ crudEvent' = CrudEvent(fn, "start", call, FALSE, FALSE)
    /\ lastOp' = Op(fn, call.path, Void, "start")

UpdateDataCall(i, call) ==
    /\ FreeSlot(i)
    /\ IF call.path = <<>> \/ call.docId = Undefined \/ ~call.hasData
       THEN Rejected("updateData", call)
       ELSE WriteBegin(i, "updateData", call)

DeleteDataCall(i, call) ==
    /\ FreeSlot(i)
    /\ IF call.path = <<>> \/ call.docId = Undefined
       THEN Rejected("deleteData", call)
       ELSE WriteBegin(i, "deleteData", call)

CreateDataCall(i, call) ==
    /\ FreeSlot(i)
    /\ IF call.path = <<>> \/ ~call.hasData
       THEN Rejected("createData", call)
       ELSE WriteBegin(i, "createData", call)

\* updateDoc / deleteDoc / setDoc settles: the write is applied, or fails
\* (updateDoc of a document that does not exist always fails)
ServeWrite(i, fail) ==
    LET call == calls[i]
        fails == fail \/ (call.fn = "updateData" /\ ~upstream.exists)
    IN  /\ handler.phase = "idle"
        /\ call.fn \in {"updateData", "deleteData", "createData"}
        /\ call.phase = "awaiting"
        /\ calls' = [calls EXCEPT ![i].phase = "settled",
                                  ![i].snapshot = IF fails THEN "rejected" ELSE "ok"]
        /\ upstream' = IF fails THEN upstream
                       ELSE [rev |-> upstream.rev + 1, exists |-> call.fn # "deleteData"]
        /\ listener' = IF ~fails /\ listener.state = "active"
                        THEN [listener EXCEPT !.pending = TRUE] ELSE listener
        /\ UNCHANGED <<cacheVars, keyVars, timers, reaper, instVars, handler, crudEvent>>

\* Mutant: the invalidation runs whether the write succeeded or failed
invalidatesAfter_always(call) == TRUE

\* Whether updateData / deleteData reach their invalidation: the lines after
\* the await run only when updateDoc / setDoc / deleteDoc did not throw
invalidatesAfter(call) == call.snapshot = "ok"

\* updateData and deleteData after their await
WriteResume(i) ==
    LET call == calls[i]
        ok == call.snapshot = "ok"
    IN  /\ handler.phase = "idle"
        /\ call.fn \in {"updateData", "deleteData"}
        /\ call.phase = "settled"
        /\ cache' = IF invalidatesAfter(call)
                    THEN invalidateWritten(cache, config, call.path, call.docId) ELSE cache
        /\ History(cache', NoKey, NoKey)
        /\ calls' = [calls EXCEPT ![i] = Idle]
        /\ crudEvent' = CrudEvent(call.fn, IF ok THEN "return" ELSE "error", call, ok, FALSE)
        /\ lastOp' = Op(call.fn, call.path, IF ok THEN "ok" ELSE "error", "settled")
        /\ UNCHANGED <<config, cleanupTimer, now, keyVars, timers, reaper, instVars, upstream, listener, handler>>

\* createData after its await: the error, the silent return, the listener, or
\* the one-time getData({ path, docId: documentId })
CreateDataResume(i) ==
    LET call == calls[i]
    IN  /\ handler.phase = "idle"
        /\ call.fn = "createData"
        /\ call.phase = "settled"
        /\ IF call.snapshot # "ok" \/ call.silent
           THEN /\ calls' = [calls EXCEPT ![i] = Idle]
                /\ UNCHANGED <<cache, config, cleanupTimer, now, writtenAt, useOrder, keyVars, timers, reaper, instVars,
                               upstream, listener, handler>>
                /\ crudEvent' = CrudEvent("createData",
                                          IF call.snapshot = "ok" THEN "return" ELSE "error",
                                          call, call.snapshot = "ok", FALSE)
                /\ lastOp' = Op("createData", call.path,
                                IF call.snapshot = "ok" THEN "ok" ELSE "error", "settled")
           ELSE GetDataBegin(i, [call EXCEPT !.limit = Undefined, !.useCache = TRUE,
                                             !.cacheTTL = 0], "createData")

\* listenData: onSnapshot registers the callbacks
ListenData(path, docId, onError) ==
    /\ handler.phase = "idle"
    /\ listener.state = "none"
    /\ UNCHANGED <<cache, config, cleanupTimer, now, writtenAt, useOrder, keyVars, timers, reaper, instVars,
                   upstream, calls, handler, crudEvent>>
    /\ listener' = [NoListener EXCEPT !.state = "active", !.path = path, !.docId = docId,
                                      !.pending = TRUE, !.onError = onError]
    /\ lastOp' = Op("listenData", path, Void, "")

\* The snapshot callback up to its call of onNext: a snapshot arrived (the
\* first one, or one after a write) and the cache entries of the path were
\* invalidated
SnapshotArrives ==
    /\ handler.phase = "idle"
    /\ listener.state = "active"
    /\ listener.pending
    /\ cache' = invalidateOnSnapshot(cache, config, listener.path)
    /\ History(cache', NoKey, NoKey)
    /\ listener' = [listener EXCEPT !.pending = FALSE]
    /\ handler' = [phase |-> "onNext", path |-> listener.path,
                   data |-> IF listener.docId # Undefined /\ ~upstream.exists
                            THEN Null ELSE Payload(upstream.rev)]
    /\ lastOp' = Op("snapshot", listener.path, Void, "")
    /\ UNCHANGED <<config, cleanupTimer, now, keyVars, timers, reaper, instVars, upstream, calls, crudEvent>>

\* onNext(data) is invoked and the callback ends
OnNext ==
    /\ handler.phase = "onNext"
    /\ UNCHANGED <<cache, config, cleanupTimer, now, writtenAt, useOrder, keyVars, timers, reaper, instVars,
                   upstream, calls, listener, crudEvent>>
    /\ handler' = HandlerIdle
    /\ lastOp' = Op("onNext", handler.path, handler.data, "")

\* Mutant: listenData hands back a function that does nothing
cancelHandle_noop(l) == l

\* What the function listenData returned does to the subscription: it is the
\* Unsubscribe of onSnapshot, which detaches the listener (and does nothing
\* to a listener already detached)
cancelHandle(l) == [NoListener EXCEPT !.state = "terminated"]

\* The unsubscribe function listenData returned is invoked, for the first
\* time or again
Unsubscribe ==
    /\ handler.phase = "idle"
    /\ listener.state \in {"active", "terminated"}
    /\ UNCHANGED <<cache, config, cleanupTimer, now, writtenAt, useOrder, keyVars, timers, reaper, instVars,
                   upstream, calls, handler, crudEvent>>
    /\ listener' = [cancelHandle(listener) EXCEPT !.cancelled = TRUE]
    /\ lastOp' = Op("unsubscribe", listener.path, Void, "")

\* Mutant: the error callback tears the subscription down
afterListenerError_terminate(l) == [NoListener EXCEPT !.state = "terminated"]

\* The subscription after the error callback ran: the callback touches nothing
afterListenerError(l) == l

\* The error callback of onSnapshot: a listen error is reported, onError is
\* invoked when the caller supplied it
ListenerError ==
    /\ handler.phase = "idle"
    /\ listener.state = "active"
    /\ UNCHANGED <<cache, config, cleanupTimer, now, writtenAt, useOrder, keyVars, timers, reaper, instVars,
                   upstream, calls, handler, crudEvent>>
    /\ listener' = [afterListenerError(listener) EXCEPT !.errored = TRUE]
    /\ lastOp' = Op("listenerError", listener.path, Void,
                    IF listener.onError THEN "onError" ELSE "")

\* A change of the subscribed data is applied at the Firestore side by another
\* client; the listeners attached are due a snapshot
RemoteChange ==
    /\ handler.phase = "idle"
    /\ upstream.rev < MaxWrites
    /\ upstream' = [upstream EXCEPT !.rev = upstream.rev + 1]
    /\ listener' = IF listener.state = "active"
                   THEN [listener EXCEPT !.pending = TRUE] ELSE listener
    /\ UNCHANGED <<cacheVars, keyVars, timers, reaper, instVars, calls, handler, crudEvent>>

\* The calls made
Call(path, docId, limit, useCache, silent, hasData) ==
    [Idle EXCEPT !.path = path, !.docId = docId, !.limit = limit,
                 !.useCache = useCache, !.silent = silent, !.hasData = hasData]

GetInputs ==
    {Call(users, "1", Undefined, TRUE, FALSE, FALSE),
     Call(users, Undefined, Undefined, TRUE, FALSE, FALSE),
     Call(users, Undefined, "5", TRUE, FALSE, FALSE),
     Call(users, Undefined, Undefined, FALSE, FALSE, FALSE),
     Call(<<>>, Undefined, Undefined, TRUE, FALSE, FALSE)}

UpdateInputs ==
    {Call(users, "1", Undefined, FALSE, FALSE, TRUE),
     Call(users, Undefined, Undefined, FALSE, FALSE, TRUE),
     Call(users, "1", Undefined, FALSE, FALSE, FALSE)}

DeleteInputs ==
    {Call(users, "1", Undefined, FALSE, FALSE, FALSE),
     Call(<<>>, "1", Undefined, FALSE, FALSE, FALSE)}

CreateInputs ==
    {Call(users, "1", Undefined, FALSE, FALSE, TRUE),
     Call(users, "1", Undefined, FALSE, TRUE, TRUE),
     Call(users, "1", Undefined, FALSE, FALSE, FALSE)}

CrudInit ==
    /\ cache = <<>>
    /\ config = [ttl |-> 1, maxSize |-> CrudMaxSize, enabled |-> TRUE, cleanupInterval |-> 1]
    /\ cleanupTimer = "running"
    /\ now = 0
    /\ lastOp = [op |-> "getInstance", key |-> NoKey, ret |-> Void, log |-> "", removed |-> 0]
    /\ writtenAt = <<>>
    /\ useOrder = <<>>
    /\ keyCall = NoKeyCall
    /\ CrudIdle
    /\ InstIdle
    /\ ReaperIdle
    /\ TimersIdle

\* cacheManager.configure({ enabled }) called by the application
ConfigureEnabled(b) ==
    /\ handler.phase = "idle"
    /\ Configure([enabled |-> b])

CrudNext ==
    \/ \E i \in 1..MaxCalls, call \in GetInputs : GetDataCall(i, call)
    \/ \E i \in 1..MaxCalls, fail \in BOOLEAN : ServeRead(i, fail)
    \/ \E i \in 1..MaxCalls : GetDataResume(i)
    \/ \E i \in 1..MaxCalls, call \in UpdateInputs : UpdateDataCall(i, call)
    \/ \E i \in 1..MaxCalls, call \in DeleteInputs : DeleteDataCall(i, call)
    \/ \E i \in 1..MaxCalls, call \in CreateInputs : CreateDataCall(i, call)
    \/ \E i \in 1..MaxCalls, fail \in BOOLEAN : ServeWrite(i, fail)
    \/ \E i \in 1..MaxCalls : WriteResume(i)
    \/ \E i \in 1..MaxCalls : CreateDataResume(i)
    \/ \E docId \in {"1", Undefined} : ListenData(users, docId, TRUE)
    \/ SnapshotArrives
    \/ OnNext
    \/ Unsubscribe
    \/ \E b \in BOOLEAN : ConfigureEnabled(b)

CrudSpec == CrudInit /\ [][CrudNext]_vars

\* The subscription with its errors and its cancellation, beside the reads that
\* fill the cache
ListenNext ==
    \/ \E i \in 1..MaxCalls, call \in GetInputs : GetDataCall(i, call)
    \/ \E i \in 1..MaxCalls, fail \in BOOLEAN : ServeRead(i, fail)
    \/ \E i \in 1..MaxCalls : GetDataResume(i)
    \/ \E docId \in {"1", Undefined}, onError \in BOOLEAN : ListenData(users, docId, onError)
    \/ RemoteChange
    \/ SnapshotArrives
    \/ OnNext
    \/ ListenerError
    \/ Unsubscribe

ListenSpec == CrudInit /\ [][ListenNext]_vars

----------------------------------------------------------------------------
(* Reads and writes while the application disables and enables the cache *)

ReenableNext ==
    \/ \E i \in 1..MaxCalls, call \in {c \in GetInputs : c.useCache /\ c.path # <<>>} :
          GetDataCall(i, call)
    \/ \E i \in 1..MaxCalls, fail \in BOOLEAN : ServeRead(i, fail)
    \/ \E i \in 1..MaxCalls : GetDataResume(i)
    \/ \E i \in 1..MaxCalls :
          UpdateDataCall(i, Call(users, "1", Undefined, FALSE, FALSE, TRUE))
    \/ \E i \in 1..MaxCalls :
          DeleteDataCall(i, Call(users, "1", Undefined, FALSE, FALSE, FALSE))
    \/ \E i \in 1..MaxCalls, fail \in BOOLEAN : ServeWrite(i, fail)
    \/ \E i \in 1..MaxCalls : WriteResume(i)
    \/ \E docId \in {"1", Undefined} : ListenData(users, docId, TRUE)
    \/ SnapshotArrives
    \/ OnNext
    \/ \E b \in BOOLEAN : ConfigureEnabled(b)

ReenableSpec == CrudInit /\ [][ReenableNext]_vars

----------------------------------------------------------------------------
(* listenData when the subscription cannot be set up *)

\* Mutant: the catch of listenData reports nothing
reportsSetupError_never(onError) == FALSE

\* The catch of listenData: if (onError) onError(handleError(error))
reportsSetupError(onError) == onError

\* What the function the catch returns, () => {}, does to the subscription
noopHandle(l) == l

\* listenData whose try block throws (getFirebaseInstance() on a client that
\* is not initialised, doc() or collection() on a bad path, onSnapshot): the
\* catch reports the error and returns; the transport holds no listener
ListenDataFails(path, docId, onError) ==
    /\ handler.phase = "idle"
    /\ listener.state = "none"
    /\ UNCHANGED <<cache, config, cleanupTimer, now, writtenAt, useOrder, keyVars, timers, reaper, instVars,
                   upstream, calls, handler, crudEvent>>
    /\ listener' = [NoListener EXCEPT !.state = "failed", !.path = path, !.docId = docId,
                                      !.onError = onError]
    /\ lastOp' = Op("listenData", path, Void,
                    IF reportsSetupError(onError) THEN "onError" ELSE "")

\* The function listenData returned after the failure is invoked, for the
\* first time or again
NoopHandle ==
    /\ handler.phase = "idle"
    /\ listener.state = "failed"
    /\ UNCHANGED <<cache, config, cleanupTimer, now, writtenAt, useOrder, keyVars, timers, reaper, instVars,
                   upstream, calls, handler, crudEvent>>
    /\ listener' = [noopHandle(listener) EXCEPT !.cancelled = TRUE]
    /\ lastOp' = Op("unsubscribe", listener.path, Void, "")

SetupNext ==
    \/ \E i \in 1..MaxCalls, call \in GetInputs : GetDataCall(i, call)
    \/ \E i \in 1..MaxCalls, fail \in BOOLEAN : ServeRead(i, fail)
    \/ \E i \in 1..MaxCalls : GetDataResume(i)
    \/ \E docId \in {"1", Undefined}, onError \in BOOLEAN : ListenData(users, docId, onError)
    \/ \E docId \in {"1", Undefined}, onError \in BOOLEAN : ListenDataFails(users, docId, onError)
    \/ RemoteChange
    \/ SnapshotArrives
    \/ OnNext
    \/ ListenerError
    \/ Unsubscribe
    \/ NoopHandle

SetupSpec == CrudInit /\ [][SetupNext]_vars

----------------------------------------------------------------------------
(* The snapshot callback when onNext throws *)

\* Mutant: the catch of the snapshot callback detaches the listener
afterCallbackError_terminate(l) == [NoListener EXCEPT !.state = "terminated"]

\* The subscription after the catch of the snapshot callback ran: the catch
\* logs and reports, it does not unsubscribe
afterCallbackError(l) == l

\* onNext(data) throws: the catch of the snapshot callback logs the error and
\* invokes onError(handleError(error)) when the caller supplied onError; the
\* callback then returns to the transport
OnNextThrows ==
    /\ handler.phase = "onNext"
    /\ UNCHANGED <<cache, config, cleanupTimer, now, writtenAt, useOrder, keyVars, timers, reaper, instVars,
                   upstream, calls, crudEvent>>
    /\ listener' = afterCallbackError(listener)
    /\ handler' = HandlerIdle
    /\ lastOp' = [Op("onNextThrows", handler.path, Void,
                     IF listener.onError THEN "onError" ELSE "swallowed")
                     EXCEPT !.removed = lastOp.removed]

ThrowNext ==
    \/ \E i \in 1..MaxCalls, call \in GetInputs : GetDataCall(i, call)
    \/ \E i \in 1..MaxCalls, fail \in BOOLEAN : ServeRead(i, fail)
    \/ \E i \in 1..MaxCalls : GetDataResume(i)
    \/ \E docId \in {"1", Undefined}, onError \in BOOLEAN : ListenData(users, docId, onError)
    \/ RemoteChange
    \/ SnapshotArrives
    \/ OnNext
    \/ OnNextThrows
    \/ Unsubscribe

ThrowSpec == CrudInit /\ [][ThrowNext]_vars

----------------------------------------------------------------------------
(* Concurrent getData calls: two calls in flight at once *)

StampedeInputs ==
    {Call(users, "1", Undefined, TRUE, FALSE, FALSE),
     Call(users, Undefined, Undefined, TRUE, FALSE, FALSE)}

\* No entry expires within the time modelled (ttl is beyond it)
StampedeInit ==
    /\ cache = <<>>
    /\ config \in {[ttl |-> MaxTime + 2, maxSize |-> m, enabled |-> TRUE, cleanupInterval |-> 1] :
                      m \in 1..CrudMaxSize}
    /\ cleanupTimer = "running"
    /\ now = 0
    /\ lastOp = [op |-> "getInstance", key |-> NoKey, ret |-> Void, log |-> "", removed |-> 0]
    /\ writtenAt = <<>>
    /\ useOrder = <<>>
    /\ keyCall = NoKeyCall
    /\ upstream = [rev |-> 0, exists |-> TRUE]
    /\ calls = [i \in 1..StampedeCalls |-> Idle]
    /\ listener = NoListener
    /\ handler = HandlerIdle
    /\ crudEvent = NoEvent
    /\ InstIdle
    /\ ReaperIdle
    /\ TimersIdle

StampedeNext ==
    \/ \E i \in 1..StampedeCalls, call \in StampedeInputs : GetDataCall(i, call)
    \/ \E i \in 1..StampedeCalls, fail \in BOOLEAN : ServeRead(i, fail)
    \/ \E i \in 1..StampedeCalls : GetDataResume(i)
    \/ RemoteChange
    \/ Tick

StampedeSpec == StampedeInit /\ [][StampedeNext]_vars

----------------------------------------------------------------------------
(* A getData beside a write on the same path: two calls in flight at once *)

RaceNext ==
    \/ \E i \in 1..StampedeCalls, call \in StampedeInputs : GetDataCall(i, call)
    \/ \E i \in 1..StampedeCalls, fail \in BOOLEAN : ServeRead(i, fail)
    \/ \E i \in 1..StampedeCalls : GetDataResume(i)
    \/ \E i \in 1..StampedeCalls :
          UpdateDataCall(i, Call(users, "1", Undefined, FALSE, FALSE, TRUE))
    \/ \E i \in 1..StampedeCalls :
          DeleteDataCall(i, Call(users, "1", Undefined, FALSE, FALSE, FALSE))
    \/ \E i \in 1..StampedeCalls, fail \in BOOLEAN : ServeWrite(i, fail)
    \/ \E i \in 1..StampedeCalls : WriteResume(i)

RaceSpec == StampedeInit /\ [][RaceNext]_vars

\* The number of writes that were applied and whose call has returned
WritesReturned ==
    upstream.rev - Cardinality({i \in DOMAIN calls :
        /\ calls[i].fn \in {"updateData", "deleteData"}
        /\ calls[i].phase = "settled"
        /\ calls[i].snapshot = "ok"})

----------------------------------------------------------------------------
(* The singleton and the references the operation modules keep to it *)

\* CacheManager.getInstance(): the instance, built when there is none
getInstance == IF instance # 0 THEN instance ELSE Len(stores) + 1

\* The maps after getInstance()
storesWithInstance == IF instance # 0 THEN stores ELSE Append(stores, <<>>)

\* getCache() of an operation module: cacheInstance, fetched from
\* getInstance() on first use and kept from then on
lazyCache(m) == IF refs[m] # 0 THEN refs[m] ELSE getInstance

\* A CacheManager can be built
CanBuild == instance # 0 \/ Len(stores) < MaxInstances

InstOp(name, key, ret, log, removed) ==
    [op |-> name, key |-> key, ret |-> ret, log |-> log, removed |-> removed]

\* The application calls CacheManager.getInstance() while there is none
GetInstance ==
    /\ instance = 0
    /\ CanBuild
    /\ instance' = getInstance
    /\ stores' = storesWithInstance
    /\ lastOp' = InstOp("getInstance", NoKey, Void, "", 0)
    /\ UNCHANGED <<cache, config, cleanupTimer, now, writtenAt, useOrder, keyVars, timers, reaper, crudVars, refs>>

\* CacheManager.getInstance().destroy()
Destroy ==
    /\ instance # 0
    /\ stores' = [stores EXCEPT ![instance] = clear(@)]
    /\ instance' = 0
    /\ lastOp' = InstOp("destroy", NoKey, Void, "", Len(stores[instance]))
    /\ UNCHANGED <<cache, config, cleanupTimer, now, writtenAt, useOrder, keyVars, timers, reaper, crudVars, refs>>

\* getData({ path, docId }) whose fetch succeeds, from its lookup to its
\* return, on the instance its module holds
GetDataOnInstance(call) ==
    LET r == lazyCache("getData")
        c == storesWithInstance[r]
        cacheKey == cacheKeyOf(call)
        cachedData == getResult(c, config, now, cacheKey)
        after == IF cachedData # Null THEN getCache(c, config, now, cacheKey)
                 ELSE set(getCache(c, config, now, cacheKey), config, now, cacheKey,
                          fetched(call))
    IN  /\ CanBuild
        /\ fetched(call) # "missing"
        /\ instance' = getInstance
        /\ refs' = [refs EXCEPT !["getData"] = r]
        /\ stores' = [storesWithInstance EXCEPT ![r] = after]
        /\ lastOp' = InstOp("getData", call.path,
                            IF cachedData # Null THEN cachedData ELSE fetched(call),
                            IF cachedData # Null THEN "hit" ELSE "fetched", 0)
        /\ UNCHANGED <<cache, config, cleanupTimer, now, writtenAt, useOrder, keyVars, timers, reaper, crudVars>>

\* updateData / deleteData whose write succeeds, from the write to the
\* invalidation on the instance its module holds
WriteOnInstance(fn, call) ==
    LET r == lazyCache(fn)
        c == storesWithInstance[r]
        after == invalidateWritten(c, config, call.path, call.docId)
    IN  /\ CanBuild
        /\ upstream.rev < MaxWrites
        /\ upstream.exists
        /\ upstream' = [rev |-> upstream.rev + 1, exists |-> fn # "deleteData"]
        /\ instance' = getInstance
        /\ refs' = [refs EXCEPT ![fn] = r]
        /\ stores' = [storesWithInstance EXCEPT ![r] = after]
        /\ lastOp' = InstOp(fn, call.path, "ok", "settled", Len(c) - Len(after))
        /\ UNCHANGED <<cache, config, cleanupTimer, now, writtenAt, useOrder, keyVars, timers, reaper,
                       calls, listener, handler, crudEvent>>

\* listenData: const cache = CacheManager.getInstance(), kept by the
\* snapshot callbacks of the subscription
ListenOnInstance ==
    /\ CanBuild
    /\ refs["listenData"] = 0
    /\ instance' = getInstance
    /\ refs' = [refs EXCEPT !["listenData"] = getInstance]
    /\ stores' = storesWithInstance
    /\ lastOp' = InstOp("listenData", users, Void, "", 0)
    /\ UNCHANGED <<cache, config, cleanupTimer, now, writtenAt, useOrder, keyVars, timers, reaper, crudVars>>

\* A snapshot of the subscription arrives: cache.invalidateByPath(path)
SnapshotOnInstance ==
    LET r == refs["listenData"]
        after == invalidateOnSnapshot(stores[r], config, users)
    IN  /\ r # 0
        /\ stores' = [stores EXCEPT ![r] = after]
        /\ lastOp' = InstOp("snapshot", users, Void, "", Len(stores[r]) - Len(after))
        /\ UNCHANGED <<cache, config, cleanupTimer, now, writtenAt, useOrder, keyVars, timers, reaper,
                       crudVars, instance, refs>>

InstanceInputs ==
    {Call(users, "1", Undefined, TRUE, FALSE, FALSE),
     Call(users, Undefined, Undefined, TRUE, FALSE, FALSE)}

InstanceNext ==
    \/ GetInstance
    \/ Destroy
    \/ \E call \in InstanceInputs : GetDataOnInstance(call)
    \/ \E fn \in {"updateData", "deleteData"} :
          WriteOnInstance(fn, Call(users, "1", Undefined, FALSE, FALSE, fn = "updateData"))
    \/ ListenOnInstance
    \/ SnapshotOnInstance

InstanceSpec == CrudInit /\ [][InstanceNext]_vars

----------------------------------------------------------------------------
(* getInstance(config) and configure(config) on the instance *)

\* An optional argument is <<>> when it is left out, <<config>> when given.
\* new CacheManager(config): config.f ?? default, for every field
constructed(opt) ==
    IF opt = <<>> THEN DefaultConfig
    ELSE [f \in DOMAIN DefaultConfig |->
             IF f \in DOMAIN opt[1] THEN opt[1][f] ELSE DefaultConfig[f]]

\* CacheManager.getInstance(config?): builds the instance when there is none,
\* configures the instance when a config is given, and returns the instance
GetInstanceWith(opt) ==
    IF instance = 0
    THEN /\ CanBuild
         /\ instance' = getInstance
         /\ stores' = storesWithInstance
         /\ cache' = <<>>
         /\ History(cache', NoKey, NoKey)
         /\ config' = constructed(opt)
         /\ cleanupTimer' = startCleanupTimer([handle |-> "null", active |-> 0]).handle
         /\ timers' = startCleanupTimer([handle |-> "null", active |-> 0]).active
         /\ reaper' = [due |-> now + config'.cleanupInterval,
                       period |-> config'.cleanupInterval, configuredAt |-> -1]
         /\ lastOp' = Op("getInstance", NoKey, Void, "built")
         /\ UNCHANGED <<now, keyVars, crudVars, refs>>
    ELSE IF opt = <<>>
    THEN /\ UNCHANGED <<cache, config, cleanupTimer, now, writtenAt, useOrder, keyVars,
                        crudVars, instVars, reaper, timers>>
         /\ lastOp' = Op("getInstance", NoKey, Void, "")
    ELSE /\ config' = configure(config, opt[1])
         /\ cleanupTimer' = IF restartsTimer(opt[1]) THEN startCleanupTimer(TheTimer).handle
                            ELSE cleanupTimer
         /\ timers' = IF restartsTimer(opt[1]) THEN startCleanupTimer(TheTimer).active
                      ELSE timers
         /\ reaper' = IF restartsTimer(opt[1])
                      THEN [due |-> now + config'.cleanupInterval,
                            period |-> config'.cleanupInterval, configuredAt |-> now]
                      ELSE [reaper EXCEPT !.configuredAt = now]
         /\ UNCHANGED <<cache, now, writtenAt, useOrder, keyVars, crudVars, instVars>>
         /\ lastOp' = Op("getInstance", NoKey, Void, "configured")

\* The configs handed to configure and getInstance: one field, or several
ConfigArgs ==
    {[enabled |-> b] : b \in BOOLEAN}
    \cup {[maxSize |-> 1], [ttl |-> 1], [cleanupInterval |-> 2]}
    \cup {[enabled |-> FALSE, maxSize |-> 1], [ttl |-> 0, cleanupInterval |-> 1]}

ConfigNext ==
    \/ Tick
    \/ Set(createKey(users, <<>>), Payload(0))
    \/ \E arg \in ConfigArgs : ConfigureTimer(arg)
    \/ \E opt \in {<<>>} \cup {<<arg>> : arg \in ConfigArgs} : GetInstanceWith(opt)
    \/ DestroyInstance

ConfigSpec == ReapInit /\ [][ConfigNext]_vars

\* getData called with and without the cacheTTL option, while time passes
TtlInputs ==
    {[Call(users, "1", Undefined, TRUE, FALSE, FALSE) EXCEPT !.cacheTTL = 2],
     Call(users, "1", Undefined, TRUE, FALSE, FALSE),
     Call(users, Undefined, Undefined, TRUE, FALSE, FALSE)}

TtlNext ==
    \/ \E i \in 1..MaxCalls, call \in TtlInputs : GetDataCall(i, call)
    \/ \E i \in 1..MaxCalls, fail \in BOOLEAN : ServeRead(i, fail)
    \/ \E i \in 1..MaxCalls : GetDataResume(i)
    \/ Tick

TtlSpec == CrudInit /\ [][TtlNext]_vars

\* The cache API beside configure({ ttl }), on an instance built with ttl 1
TtlChanges == {[ttl |-> 0], [ttl |-> 2]}

TtlChangeNext ==
    \/ Tick
    \/ \E key \in ReapKeys : Set(key, Payload(now))
    \/ \E key \in ReapKeys : Get(key)
    \/ \E key \in ReapKeys : Has(key)
    \/ \E patch \in TtlChanges : Configure(patch)
    \/ Sweep

TtlChangeSpec == CrudInit /\ [][TtlChangeNext]_vars

\* set at capacity on a store that holds expired entries: three keys in a
\* store of two, reads that refresh recency, and a ttl that configure changes
EvictKeys == {createKey(users, <<>>), createKey(posts, <<>>), createKey(usersArchive, <<>>)}

EvictNext ==
    \/ Tick
    \/ \E key \in EvictKeys : Set(key, Payload(now))
    \/ \E key \in EvictKeys : Get(key)
    \/ \E patch \in {[ttl |-> 1], [ttl |-> 2]} : Configure(patch)

EvictSpec == CrudInit /\ [][EvictNext]_vars

----------------------------------------------------------------------------
(* Properties of the cache API *)

\* The text of a key before its first ":" (the whole key when it holds none),
\* stated without the code's split
PathComponent(key) ==
    LET n == CHOOSE m \in 0..Len(key) :
                 /\ \A i \in 1..m : key[i] # ":"
                 /\ m = Len(key) \/ key[m + 1] = ":"
    IN  [i \in 1..n |-> key[i]]

\* text begins with prefix followed by the separator
BeginsWith(text, prefix, sep) ==
    /\ Len(text) > Len(prefix)
    /\ \A i \in 1..Len(prefix) : text[i] = prefix[i]
    /\ text[Len(prefix) + 1] = sep

\* C1. TTL expiry: a get of a key that set wrote at time t returns nothing once
\* now - t > ttl, whether or not a sweep ran and whatever hits came in between;
\* while now - t <= ttl (entry still stored, cache enabled) it returns what was written.
TtlExpiry ==
    [][LET key == lastOp'.key IN
          (lastOp'.op = "get" /\ Get(key) /\ key \in DOMAIN writtenAt) =>
              IF now - writtenAt[key] > config.ttl
              THEN lastOp'.ret = Null
              ELSE config.enabled => lastOp'.ret = Payload(writtenAt[key])]_vars

\* A get found an entry past its ttl still stored, and returned nothing
TtlExpiryWitness ==
    /\ lastOp.op = "get"
    /\ lastOp.log = "expired"
    /\ lastOp.ret = Null
    /\ lastOp.removed = 1

\* C2. LRU eviction order: when set inserts a new key at capacity, the entry it
\* evicts is the one written or hit least recently in the order of operations.
LruEvictionOrder ==
    [][LET key == lastOp'.key IN
          (/\ lastOp'.op = "set"
           /\ Set(key, Payload(now))
           /\ config.enabled
           /\ config.maxSize >= 1
           /\ ~MapHas(cache, key)
           /\ Len(cache) >= config.maxSize) =>
              KeysOf(cache') = (KeysOf(cache) \ {Head(useOrder)}) \cup {key}]_vars

\* C3. Size invariant: an operation that leaves maxSize as it is keeps the number
\* of stored entries within maxSize.
SizeInvariant ==
    [][(Len(cache) <= config.maxSize /\ config'.maxSize = config.maxSize)
          => Len(cache') <= config'.maxSize]_vars

\* A set at capacity evicted an entry and the store is exactly full
SizeInvariantWitness ==
    /\ lastOp.op = "set"
    /\ lastOp.removed = 1
    /\ config.enabled
    /\ Len(cache) = config.maxSize
    /\ MapHas(cache, lastOp.key)

\* C4. Disabled cache: while enabled = false, set leaves the map unchanged, get
\* returns nothing and has returns false, for every key, stored or not.
DisabledCache ==
    [][LET key == lastOp'.key IN
          ~config.enabled =>
              /\ (lastOp'.op = "set" /\ Set(key, Payload(now))) => cache' = cache
              /\ (lastOp'.op = "get" /\ Get(key)) => (lastOp'.ret = Null /\ cache' = cache)
              /\ (lastOp'.op = "has" /\ Has(key)) => (lastOp'.ret = "false" /\ cache' = cache)]_vars

\* A get while disabled returned nothing for a key stored, and not expired
DisabledCacheWitness ==
    /\ ~config.enabled
    /\ lastOp.op = "get"
    /\ lastOp.ret = Null
    /\ MapHas(cache, lastOp.key)
    /\ now - MapGet(cache, lastOp.key).timestamp <= config.ttl

\* C8. Path invalidation scope: with the cache enabled, invalidateByPath(p)
\* removes exactly the entries whose path component is p or begins with p + "/",
\* and leaves every other entry as it was.
InvalidateByPathScope ==
    [][LET p == lastOp'.key IN
          (lastOp'.op = "invalidateByPath" /\ InvalidateByPath(p) /\ config.enabled) =>
              cache' = SelectSeq(cache, LAMBDA e :
                          ~(PathComponent(e.key) = p \/ BeginsWith(PathComponent(e.key), p, "/")))]_vars

\* invalidateByPath("users") removed an entry and kept the one of "usersArchive"
InvalidateByPathScopeWitness ==
    /\ lastOp.op = "invalidateByPath"
    /\ lastOp.key = users
    /\ config.enabled
    /\ lastOp.removed >= 1
    /\ MapHas(cache, createKey(usersArchive, <<>>))

\* C9. Collection invalidation scope: with the cache enabled,
\* invalidateCollection(c) removes exactly the entries whose key begins with
\* c + ":" or c + "/", and leaves every other entry as it was.
InvalidateCollectionScope ==
    [][LET p == lastOp'.key IN
          (lastOp'.op = "invalidateCollection" /\ InvalidateCollection(p) /\ config.enabled) =>
              cache' = SelectSeq(cache, LAMBDA e :
                          ~(BeginsWith(e.key, p, ":") \/ BeginsWith(e.key, p, "/")))]_vars

\* invalidateCollection("users") removed an entry and kept the one of "usersArchive"
InvalidateCollectionScopeWitness ==
    /\ lastOp.op = "invalidateCollection"
    /\ lastOp.key = users
    /\ config.enabled
    /\ lastOp.removed >= 1
    /\ MapHas(cache, createKey(usersArchive, <<>>))

----------------------------------------------------------------------------
(* Properties of the CRUD layer *)

\* C5. Write-then-read consistency: the getData that follows the successful
\* return of an updateData or deleteData on the same path, whatever its
\* selector, is not answered from the cache: it misses and awaits the upstream
\* fetch.
WriteThenRead ==
    [][(/\ lastOp.op \in {"updateData", "deleteData"}
        /\ lastOp.ret = "ok"
        /\ \E i \in 1..MaxCalls, call \in GetInputs :
              call.path = lastOp.key /\ GetDataCall(i, call)) =>
            /\ crudEvent'.kind = "miss"
            /\ \E i \in 1..MaxCalls : calls'[i].fn = "getData" /\ calls'[i].phase = "awaiting"]_vars

\* A collection query missed the enabled cache right after a write whose
\* invalidation had removed entries of the path
WriteThenReadWitness ==
    /\ crudEvent.fn = "getData"
    /\ crudEvent.kind = "miss"
    /\ crudEvent.afterWrite
    /\ crudEvent.docId = Undefined
    /\ config.enabled
    /\ \E i \in 1..MaxCalls : calls[i].useCache /\ calls[i].phase = "awaiting"

\* C6. Every write invalidates: when the upstream write of createData,
\* updateData or deleteData succeeded, the step that continues the call leaves,
\* with the cache enabled, no entry keyed under the written collection path.
WritesInvalidate ==
    [][(/\ config.enabled
        /\ \E i \in 1..MaxCalls : WriteResume(i) \/ CreateDataResume(i)
        /\ crudEvent'.wrote) =>
            \A k \in KeysOf(cache') : ~BeginsWith(k, crudEvent'.path, ":")]_vars

\* C7. Invalidate-before-deliver: when onNext is about to be invoked for a
\* snapshot of path P, the enabled cache holds no entry whose path component is
\* P or lies under P.
InvalidateBeforeDeliver ==
    (handler.phase = "onNext" /\ config.enabled) =>
        \A k \in KeysOf(cache) :
            ~(PathComponent(k) = handler.path \/ BeginsWith(PathComponent(k), handler.path, "/"))

\* onNext is about to be invoked and the invalidation before it removed entries
InvalidateBeforeDeliverWitness ==
    /\ handler.phase = "onNext"
    /\ config.enabled
    /\ lastOp.op = "snapshot"
    /\ lastOp.removed >= 1

----------------------------------------------------------------------------
(* Properties of the subscription *)

\* C11. Subscription termination: once the handle listenData returned was
\* invoked, the subscription is terminated and no step invokes the snapshot
\* callback, onNext or the error callback; invoking the handle again returns
\* normally and changes nothing.
SubscriptionTermination ==
    [][listener.cancelled =>
          /\ listener.state = "terminated"
          /\ listener'.state = "terminated"
          /\ ~SnapshotArrives
          /\ ~OnNext
          /\ ~ListenerError
          /\ Unsubscribe =>
                /\ lastOp'.ret = Void
                /\ UNCHANGED <<cache, config, cleanupTimer, upstream, calls, listener, handler>>]_vars

\* The handle was invoked a second time, after a change at the Firestore side
\* and with entries in the cache
SubscriptionTerminationWitness ==
    /\ listener.cancelled
    /\ lastOp.op = "unsubscribe"
    /\ lastOp.key = <<>>
    /\ upstream.rev >= 1
    /\ cache # <<>>

\* C12. Subscription errors do not terminate: the error callback invokes
\* onError exactly when it was supplied and leaves subscription and cache as
\* they were; a subscription that reported an error stays active until it is
\* cancelled, and a snapshot due after the error is still handled: the path is
\* invalidated and onNext is invoked.
ErrorsDoNotTerminate ==
    [][/\ (lastOp'.op = "listenerError" /\ ListenerError) =>
              /\ listener'.state = "active"
              /\ [listener' EXCEPT !.errored = listener.errored] = listener
              /\ (lastOp'.log = "onError") = listener.onError
              /\ cache' = cache
       /\ (listener.errored /\ ~listener.cancelled) =>
              /\ listener.state = "active"
              /\ (listener.pending /\ handler.phase = "idle") => ENABLED SnapshotArrives
       /\ (listener.errored /\ lastOp'.op = "snapshot" /\ SnapshotArrives) =>
              /\ handler'.phase = "onNext"
              /\ config.enabled =>
                    \A k \in KeysOf(cache') :
                        ~(PathComponent(k) = listener.path
                          \/ BeginsWith(PathComponent(k), listener.path, "/"))]_vars

\* After an error reported to a subscription without onError, a snapshot
\* removed entries and onNext is being invoked
ErrorsDoNotTerminateWitness ==
    /\ listener.errored
    /\ ~listener.onError
    /\ listener.state = "active"
    /\ handler.phase = "onNext"
    /\ lastOp.op = "snapshot"
    /\ lastOp.removed >= 1

----------------------------------------------------------------------------
(* Properties of getData *)

\* C13. Read-through: a getData with useCache whose canonical key has a live
\* entry (cache enabled) returns the entry's value and starts no fetch; otherwise
\* it starts one fetch, and when the fetch succeeded it hands the result to set
\* under the canonical key (stored when the cache is enabled, as set defines)
\* and returns it.
ReadThrough ==
    [][\A i \in 1..MaxCalls :
          /\ \A c \in GetInputs :
                (/\ c.useCache
                 /\ c.path # <<>>
                 /\ calls[i] = Idle
                 /\ lastOp'.op = "getData"
                 /\ lastOp'.log \in {"hit", "miss"}
                 /\ GetDataCall(i, c)) =>
                    LET k == createKey(c.path, selectorOf(c))
                        live == /\ config.enabled
                                /\ MapHas(cache, k)
                                /\ now - MapGet(cache, k).timestamp <= config.ttl
                    IN  IF live
                        THEN /\ lastOp'.ret = MapGet(cache, k).data
                             /\ crudEvent'.kind = "hit"
                             /\ calls' = calls
                             /\ upstream' = upstream
                        ELSE /\ crudEvent'.kind = "miss"
                             /\ calls'[i].fn = "getData"
                             /\ calls'[i].phase = "awaiting"
          /\ (/\ calls[i].useCache
              /\ calls[i].via = "getData"
              /\ calls[i].phase = "settled"
              /\ calls[i].snapshot \notin {"rejected", "missing"}
              /\ lastOp'.log = "fetched"
              /\ GetDataResume(i)) =>
                    LET k == createKey(calls[i].path, selectorOf(calls[i]))
                    IN  /\ lastOp'.ret = calls[i].snapshot
                        /\ calls'[i] = Idle
                        /\ IF config.enabled
                           THEN /\ MapHas(cache', k)
                                /\ MapGet(cache', k).data = calls[i].snapshot
                                /\ MapGet(cache', k).timestamp = now
                           ELSE cache' = cache]_vars

\* A getData was answered from the enabled cache with the value stored before
\* the document changed upstream
ReadThroughWitness ==
    /\ crudEvent.fn = "getData"
    /\ crudEvent.kind = "hit"
    /\ config.enabled
    /\ lastOp.ret = Payload(0)
    /\ upstream.rev >= 1

\* C14. Cache bypass: a getData with useCache = false leaves the stored map and
\* the configuration as they are, when it starts and when it resumes, and always
\* starts the upstream fetch.
CacheBypass ==
    [][\A i \in 1..MaxCalls :
          /\ \A c \in GetInputs :
                (/\ ~c.useCache
                 /\ c.path # <<>>
                 /\ calls[i] = Idle
                 /\ lastOp'.op = "getData"
                 /\ lastOp'.log = "miss"
                 /\ GetDataCall(i, c)) =>
                    /\ cache' = cache
                    /\ config' = config
                    /\ calls'[i].fn = "getData"
                    /\ calls'[i].phase = "awaiting"
          /\ (/\ calls[i].via = "getData"
              /\ ~calls[i].useCache
              /\ calls[i].phase = "settled"
              /\ lastOp'.log = "fetched"
              /\ GetDataResume(i)) =>
                    /\ cache' = cache
                    /\ config' = config]_vars

\* A getData with useCache = false returned its fetch while the enabled cache
\* held a live entry for the same query
CacheBypassWitness ==
    /\ crudEvent.fn = "getData"
    /\ crudEvent.kind = "return"
    /\ crudEvent.docId = Undefined
    /\ lastOp.log = "fetched"
    /\ lastOp.ret = Payload(1)
    /\ config.enabled
    /\ MapHas(cache, createKey(users, <<>>))
    /\ MapGet(cache, createKey(users, <<>>)).data = Payload(0)

PerRequestTtl ==
    [][\A i \in 1..MaxCalls :
          (/\ calls[i].phase = "settled"
           /\ lastOp'.log = "fetched"
           /\ GetDataResume(i)) => config'.ttl = config.ttl]_vars

\* C17. One shared store: the instance getData reads and populates is the
\* instance updateData, deleteData and the listenData subscription invalidate:
\* any two operation modules that hold a cache instance hold the same one.
SharedStore ==
    \A m1, m2 \in Modules : (refs[m1] # 0 /\ refs[m2] # 0) => refs[m1] = refs[m2]

\* C18. Misconfigured capacity: while the cache is enabled with maxSize <= 0
\* the store holds no entry, after any set too, and every get returns absent.
MisconfiguredCapacity ==
    (config.enabled /\ config.maxSize <= 0) =>
        /\ cache = <<>>
        /\ lastOp.op = "get" => lastOp.ret = Null

\* C19 as stated. Bounded staleness in memory, in every execution: every stored
\* entry is at most ttl plus one cleanup interval old.
BoundedStaleness ==
    \A n \in 1..Len(cache) :
        now - cache[n].timestamp <= config.ttl + config.cleanupInterval

\* C19. Bounded staleness in memory while the configuration is left alone: an
\* entry written after the last call of configure (so with the cache enabled)
\* is removed no later than one cleanup interval after its age first exceeds
\* ttl, whether it is read again or not: while it is stored it is at most ttl
\* plus one cleanup interval old.
BoundedStalenessUnconfigured ==
    \A n \in 1..Len(cache) :
        cache[n].timestamp > reaper.configuredAt =>
            now - cache[n].timestamp <= config.ttl + config.cleanupInterval

\* An entry past its ttl and never read again was still stored when the
\* interval fired, and the sweep removed it
BoundedStalenessWitness ==
    /\ lastOp.op = "sweep"
    /\ lastOp.removed = 1
    /\ reaper.configuredAt = -1
    /\ config.cleanupInterval = 2
    /\ now = config.ttl + 2

\* C20. Sweep semantics: a firing of the cleanup interval while the cache is
\* enabled removes exactly the entries written more than ttl ago and leaves
\* the others as they are, in their order; a firing while the cache is
\* disabled removes nothing; either way the configuration is untouched and the
\* timer keeps running, so that the next firing can take place.
SweepSemantics ==
    [][(lastOp'.op = "sweep" /\ Sweep) =>
          /\ cache' = IF config.enabled
                      THEN SelectSeq(cache, LAMBDA e : ~(now - writtenAt[e.key] > config.ttl))
                      ELSE cache
          /\ config' = config
          /\ cleanupTimer' = "running"]_vars

\* A sweep of the enabled cache removed the one entry past its ttl and kept the
\* other
SweepSemanticsWitness ==
    /\ lastOp.op = "sweep"
    /\ config.enabled
    /\ lastOp.removed = 1
    /\ Len(cache) = 1

----------------------------------------------------------------------------
(* Properties of the cleanup interval *)

RestartOnEveryConfigure ==
    [][\A patch \in TimerPatches :
          (lastOp'.op = "configure" /\ ConfigureTimer(patch)) =>
              /\ cleanupTimer' = "running"
              /\ reaper'.due = now + config'.cleanupInterval]_vars

\* C22. Timer restart on configure: a configure() call restarts the interval
\* exactly when it supplies a cleanupInterval (other than 0); a call that
\* supplies only enabled, ttl or maxSize leaves the timer as it is, stopped or
\* running, with its period and its next firing.
RestartOnlyOnInterval ==
    [][\A patch \in TimerPatches :
          (lastOp'.op = "configure" /\ ConfigureTimer(patch)) =>
              IF "cleanupInterval" \in DOMAIN patch /\ patch.cleanupInterval # 0
              THEN /\ cleanupTimer' = "running"
                   /\ timers' = 1
                   /\ reaper'.due = now + patch.cleanupInterval
              ELSE /\ cleanupTimer' = cleanupTimer
                   /\ timers' = timers
                   /\ reaper'.due = reaper.due
                   /\ reaper'.period = reaper.period]_vars

\* A configure() call that left the running interval alone: its next firing
\* is not one cleanupInterval from the call
RestartOnlyOnIntervalWitness ==
    /\ lastOp.op = "configure"
    /\ reaper.configuredAt = now
    /\ cleanupTimer = "running"
    /\ reaper.period = config.cleanupInterval
    /\ reaper.due # now + config.cleanupInterval

----------------------------------------------------------------------------
(* Further properties of the cache API *)

\* C23. Overwrite does not evict: a set of a key that is already stored, with
\* the store at or over capacity, leaves the set of stored keys as it was and
\* replaces that key's value, with timestamp and lastAccessed set to now.
OverwriteDoesNotEvict ==
    [][LET key == lastOp'.key IN
          (/\ lastOp'.op = "set"
           /\ config.enabled
           /\ MapHas(cache, key)
           /\ Len(cache) >= config.maxSize
           /\ Set(key, Payload(now))) =>
              /\ KeysOf(cache') = KeysOf(cache)
              /\ MapGet(cache', key) = [key |-> key, data |-> Payload(now),
                                        timestamp |-> now, lastAccessed |-> now]]_vars

\* C24. Capacity after reconfiguration: after every set of the enabled cache
\* the store holds at most maxSize entries, also when configure lowered maxSize
\* below the number of entries stored.
CapacityAfterReconfiguration ==
    [][LET key == lastOp'.key IN
          (lastOp'.op = "set" /\ config.enabled /\ Set(key, Payload(now))) =>
              Len(cache') <= config.maxSize]_vars

\* C25. Entry timestamp invariant: every stored entry was accessed last no
\* earlier than it was written; set writes both times as now; a get that hits
\* changes the entry's lastAccessed to now and nothing else of it; the
\* timestamp of an entry that stays stored changes only by a set of its key.
EntryTimestamps ==
    /\ [](\A n \in 1..Len(cache) : cache[n].lastAccessed >= cache[n].timestamp)
    /\ [][LET key == lastOp'.key IN
             /\ (lastOp'.op = "set" /\ config.enabled /\ Set(key, Payload(now))) =>
                    /\ MapGet(cache', key).timestamp = now
                    /\ MapGet(cache', key).lastAccessed = now
             /\ (lastOp'.op = "get" /\ lastOp'.log = "hit" /\ Get(key)) =>
                    MapGet(cache', key) = [MapGet(cache, key) EXCEPT !.lastAccessed = now]
             /\ \A k \in KeysOf(cache) \cap KeysOf(cache') :
                    MapGet(cache', k).timestamp # MapGet(cache, k).timestamp =>
                        (lastOp'.op = "set" /\ key = k)]_vars

\* A get hit an entry written earlier: it is stored with its old timestamp and
\* a later lastAccessed
EntryTimestampsWitness ==
    /\ lastOp.op = "get"
    /\ lastOp.log = "hit"
    /\ MapGet(cache, lastOp.key).timestamp < now
    /\ MapGet(cache, lastOp.key).lastAccessed = now

\* C26. has agrees with get without touching recency: has(key) returns true
\* exactly when get(key) in the same state would return a value; has deletes
\* the entry when it is expired and otherwise leaves the map, lastAccessed of
\* every entry included, as it was, so that the entry removeLRU would delete
\* next is the same before and after.
HasAgreesWithGet ==
    [][LET key == lastOp'.key IN
          (lastOp'.op = "has" /\ Has(key)) =>
              /\ lastOp'.ret = "true" <=> getResult(cache, config, now, key) # Null
              /\ IF config.enabled /\ MapHas(cache, key)
                     /\ now - writtenAt[key] > config.ttl
                 THEN cache' = MapDelete(cache, key) /\ lastOp'.ret = "false"
                 ELSE /\ cache' = cache
                      /\ lruVictim(cache', now) = lruVictim(cache, now)]_vars

\* has found a live entry that was last accessed earlier, and left it so
HasAgreesWithGetWitness ==
    /\ lastOp.op = "has"
    /\ lastOp.ret = "true"
    /\ Len(cache) = 2
    /\ MapGet(cache, lastOp.key).lastAccessed < now
    /\ lruVictim(cache, now) = lastOp.key

\* C27. Invalidation while disabled: with enabled = false, invalidateByPath and
\* invalidateCollection remove no entry and leave the map exactly as it was,
\* whatever it holds under the path.
InvalidationWhileDisabled ==
    [][LET path == lastOp'.key IN
          ~config.enabled =>
              /\ (lastOp'.op = "invalidateByPath" /\ InvalidateByPath(path)) =>
                     (cache' = cache /\ lastOp'.removed = 0)
              /\ (lastOp'.op = "invalidateCollection" /\ InvalidateCollection(path)) =>
                     (cache' = cache /\ lastOp'.removed = 0)]_vars

\* An invalidation of the disabled cache left an entry of its path stored
InvalidationWhileDisabledWitness ==
    /\ lastOp.op \in {"invalidateByPath", "invalidateCollection"}
    /\ ~config.enabled
    /\ \E k \in KeysOf(cache) : byPathMatches(k, lastOp.key) /\ collectionMatches(k, lastOp.key)

\* C28. Empty path is a no-op: invalidateByPath("") and invalidateCollection("")
\* remove no entry, whatever the store holds.
EmptyPathNoOp ==
    [][(/\ lastOp'.op \in {"invalidateByPath", "invalidateCollection"}
        /\ lastOp'.key = <<>>
        /\ InvalidateByPath(<<>>) \/ InvalidateCollection(<<>>)) => cache' = cache]_vars

----------------------------------------------------------------------------
(* Properties of concurrent reads *)

\* C29. Benign cache stampede: every getData that missed and fetched, alone or
\* beside another call for the same key that missed too, returns what it
\* fetched; after it the store holds exactly one entry for the key, with the
\* value of this fetch (the one that completed last), within the size bound.
BenignStampede ==
    [][\A i \in 1..StampedeCalls :
          (/\ calls[i].phase = "settled"
           /\ lastOp'.log = "fetched"
           /\ storesFetched(calls[i])
           /\ GetDataResume(i)) =>
              LET key == cacheKeyOf(calls[i]) IN
              /\ lastOp'.ret = calls[i].snapshot
              /\ Cardinality({n \in 1..Len(cache') : cache'[n].key = key}) = 1
              /\ MapGet(cache', key).data = calls[i].snapshot
              /\ Len(cache') <= config.maxSize]_vars

\* The second of two calls that both missed completed: its key was stored
\* already (by the first) in a full store of two, so that its set evicted the
\* other entry and replaced the first call's value
BenignStampedeWitness ==
    /\ lastOp.op = "getData"
    /\ lastOp.log = "fetched"
    /\ lastOp.removed = 1
    /\ config.maxSize = 2
    /\ Len(cache) = 1
    /\ cache[1].data = lastOp.ret
    /\ cache[1].data = Payload(0)
    /\ upstream.rev = 1

----------------------------------------------------------------------------
(* Algebra of the invalidation *)

\* C30. Invalidation is idempotent and order-independent: on every store,
\* invalidateByPath(p) applied twice leaves what one application leaves, and
\* invalidateByPath(p) then invalidateByPath(q) leaves what the reverse order
\* leaves, for all paths p and q, overlapping or not.
InvalidationAlgebra ==
    \A p, q \in Paths :
        /\ invalidateByPath(invalidateByPath(cache, config, p), config, p)
               = invalidateByPath(cache, config, p)
        /\ invalidateByPath(invalidateByPath(cache, config, p), config, q)
               = invalidateByPath(invalidateByPath(cache, config, q), config, p)

\* invalidateByPath("users/1") removed the document's entry from a store that
\* holds an entry of the collection too: a second invalidation, of the
\* overlapping path "users", has an entry left to remove
InvalidationAlgebraWitness ==
    /\ lastOp.op = "invalidateByPath"
    /\ lastOp.key = usersDoc
    /\ lastOp.removed = 1
    /\ config.enabled
    /\ MapHas(cache, createKey(users, <<>>))

----------------------------------------------------------------------------
(* Frame of configure *)

\* C31. configure changes only the supplied fields: configure(c), and
\* getInstance(c) on an existing instance, give every field of c its supplied
\* value, leave every other field with its previous value, leave the stored
\* entries untouched and leave the instance the same one; getInstance(c) does
\* to configuration and timer what configure(c) does.
ConfigureFrame ==
    [][\A c \in ConfigArgs :
          (\/ lastOp'.op = "configure" /\ ConfigureTimer(c)
           \/ lastOp'.op = "getInstance" /\ instance # 0 /\ GetInstanceWith(<<c>>)) =>
              /\ \A f \in DOMAIN config :
                     config'[f] = IF f \in DOMAIN c THEN c[f] ELSE config[f]
              /\ cache' = cache
              /\ instance' = instance
              /\ cleanupTimer' = IF "cleanupInterval" \in DOMAIN c THEN "running"
                                 ELSE cleanupTimer
              /\ timers' = IF "cleanupInterval" \in DOMAIN c THEN 1 ELSE timers]_vars

\* getInstance({ maxSize: 1 }) on the instance that configure({ enabled: false })
\* had disabled: it is the same instance, still disabled, with its two entries
ConfigureFrameWitness ==
    /\ lastOp.op = "getInstance"
    /\ lastOp.log = "configured"
    /\ instance = 1
    /\ ~config.enabled
    /\ config.maxSize = 1
    /\ config.ttl = 0
    /\ Len(cache) = 1

\* C32. remove is local and total: remove(key), with the cache enabled or
\* disabled, deletes the entry of key when there is one and changes nothing
\* when there is none, returns normally, and leaves every other entry (in its
\* place) and the configuration as they were; a key that is not stored comes to
\* be stored only by a set of that key, and until then get returns absent.
RemoveLocalTotal ==
    [][LET key == lastOp'.key IN
          /\ (lastOp'.op = "remove" /\ Remove(key)) =>
                 /\ lastOp'.ret = Void
                 /\ cache' = SelectSeq(cache, LAMBDA e : e.key # key)
                 /\ config' = config
                 /\ cleanupTimer' = cleanupTimer
                 /\ getResult(cache', config', now, key) = Null
          /\ \A k \in KeysOf(cache') \ KeysOf(cache) : lastOp'.op = "set" /\ key = k
          /\ (lastOp'.op = "get" /\ ~MapHas(cache, key) /\ Get(key)) => lastOp'.ret = Null]_vars

\* remove deleted a live entry of the disabled cache and left the other stored
RemoveLocalTotalWitness ==
    /\ lastOp.op = "remove"
    /\ lastOp.removed = 1
    /\ ~config.enabled
    /\ Len(cache) = 1
    /\ now - cache[1].timestamp <= config.ttl

----------------------------------------------------------------------------
(* Error handling of the subscription and of the writes *)

\* C33. Listener setup failure: a listenData that cannot establish the
\* subscription returns normally, having invoked onError exactly when it was
\* supplied and having left the cache alone; from then on no snapshot callback,
\* onNext or error callback runs and onError is not invoked again; the handle
\* it returned changes nothing, however often it is invoked.
SetupFailure ==
    /\ [](listener.state = "failed" =>
              /\ handler.phase = "idle"
              /\ ~ENABLED SnapshotArrives
              /\ ~ENABLED OnNext
              /\ ~ENABLED ListenerError)
    /\ [][/\ (listener.state = "none" /\ listener'.state = "failed") =>
                 /\ lastOp'.op = "listenData"
                 /\ lastOp'.ret = Void
                 /\ (lastOp'.log = "onError") = listener'.onError
                 /\ cache' = cache
          /\ listener.state = "failed" =>
                 /\ [listener' EXCEPT !.cancelled = listener.cancelled] = listener
                 /\ lastOp' # lastOp =>
                        /\ lastOp'.log # "onError"
                        /\ lastOp'.op \notin {"onNext", "snapshot", "listenerError"}
                 /\ (lastOp'.op = "unsubscribe" /\ NoopHandle) =>
                        (lastOp'.ret = Void /\ cache' = cache /\ upstream' = upstream)]_vars

\* The handle of a failed listenData (onError supplied) was invoked after the
\* data changed at the Firestore side and with an entry in the cache
SetupFailureWitness ==
    /\ listener.state = "failed"
    /\ listener.onError
    /\ listener.cancelled
    /\ lastOp.op = "unsubscribe"
    /\ upstream.rev >= 1
    /\ cache # <<>>

\* C34. Callback exceptions are contained: when onNext throws, the snapshot
\* callback returns normally to the transport, having invoked onError exactly
\* when it was supplied; the entries its invalidation removed stay removed and
\* the cache is as the invalidation left it; the subscription is Active as
\* before, and a snapshot that is due afterwards is handled (invalidation,
\* then onNext).
CallbackContained ==
    [][/\ (lastOp'.op = "onNextThrows" /\ OnNextThrows) =>
              /\ lastOp'.ret = Void
              /\ handler' = HandlerIdle
              /\ (lastOp'.log = "onError") = listener.onError
              /\ (lastOp'.log = "swallowed") = ~listener.onError
              /\ cache' = cache
              /\ config.enabled =>
                    \A k \in KeysOf(cache') :
                        ~(PathComponent(k) = handler.path
                          \/ BeginsWith(PathComponent(k), handler.path, "/"))
              /\ listener'.state = "active"
              /\ listener' = listener
       /\ (lastOp.op = "onNextThrows" /\ listener.state = "active" /\ listener.pending
           /\ handler.phase = "idle") => ENABLED SnapshotArrives
       /\ (lastOp.op = "onNextThrows" /\ lastOp'.op = "snapshot" /\ SnapshotArrives) =>
              handler'.phase = "onNext"]_vars

\* onNext threw in a subscription without onError, after the invalidation had
\* removed an entry; the subscription is active and the next snapshot is due
CallbackContainedWitness ==
    /\ lastOp.op = "onNextThrows"
    /\ lastOp.log = "swallowed"
    /\ lastOp.removed >= 1
    /\ listener.state = "active"
    /\ listener.pending
    /\ upstream.rev >= 1

----------------------------------------------------------------------------
(* A read racing a write *)

\* C35. No stale repopulation under interleaving: whatever the interleaving of
\* a getData on "users" with an updateData or deleteData on "users", every
\* entry the cache holds for the path carries a value fetched at or after the
\* revision of the last write that has returned.
NoStaleRepopulation ==
    \A n \in 1..Len(cache) :
        BeginsWith(cache[n].key, users, ":") =>
            \E r \in WritesReturned..upstream.rev : cache[n].data = Payload(r)

\* C36. Writes made while the cache is disabled are not lost on re-enable: a
\* getData answered from the enabled cache never returns a value fetched before
\* the last updateData or deleteData on the path that has returned, also when
\* the cache was disabled while that write ran and enabled again within the
\* entry's ttl: the get of the entry's key returns absent instead.
ReenableConsistency ==
    [][\A i \in 1..MaxCalls, call \in {c \in GetInputs : c.useCache /\ c.path # <<>>} :
          (/\ config.enabled
           /\ calls[i] = Idle
           /\ lastOp'.op = "getData"
           /\ lastOp'.log = "hit"
           /\ GetDataCall(i, call)) =>
              \E r \in WritesReturned..upstream.rev : lastOp'.ret = Payload(r)]_vars

----------------------------------------------------------------------------
(* Invalidation and the keys createKey builds *)

\* C37. invalidateByPath covers every key built for the path: after
\* invalidateByPath(p), for a path p with or without a ":" in it and every
\* selector s, get(createKey(p, s)) returns absent.
InvalidationCoversKeys ==
    [][\A path \in ColonPaths :
          (lastOp'.op = "invalidateByPath" /\ lastOp'.key = path /\ InvalidateByPath(path)) =>
              \A options \in ColonSelectors :
                  getResult(cache', config', now', createKey(path, options)) = Null]_vars

----------------------------------------------------------------------------
(* Expiry and eviction *)

\* C38. Expiry uses the ttl in force at read time: get and has find an entry
\* live exactly when its age is within the ttl configured now, and a sweep
\* keeps exactly such entries, whatever the ttl was when the entry was written;
\* configure itself removes nothing, so an entry older than a lowered ttl is
\* absent on its next get, and one still stored is readable again once ttl is
\* raised above its age.
ExpiryAtReadTime ==
    [][LET key == lastOp'.key IN
          /\ (lastOp'.op = "get" /\ key \in DOMAIN writtenAt /\ Get(key)) =>
                 (lastOp'.ret # Null) = (now - writtenAt[key] <= config.ttl)
          /\ (lastOp'.op = "has" /\ key \in DOMAIN writtenAt /\ Has(key)) =>
                 (lastOp'.ret = "true") = (now - writtenAt[key] <= config.ttl)
          /\ (lastOp'.op = "sweep" /\ Sweep) =>
                 KeysOf(cache') = {k \in KeysOf(cache) : now - writtenAt[k] <= config.ttl}
          /\ (lastOp'.op = "configure" /\ \E patch \in TtlChanges : Configure(patch)) =>
                 cache' = cache]_vars

\* A get hit an entry of age 2, past the ttl of 1 it was written under, after
\* configure had raised ttl to 2
ExpiryAtReadTimeWitness ==
    /\ lastOp.op = "get"
    /\ lastOp.log = "hit"
    /\ config.ttl = 2
    /\ now - MapGet(cache, lastOp.key).timestamp = 2

\* C39 as stated. Eviction prefers dead entries: when set evicts at capacity
\* and the store holds an expired entry, every entry the set removes is an
\* expired one.
EvictionPrefersDead ==
    [][LET key == lastOp'.key IN
          (/\ lastOp'.op = "set"
           /\ config.enabled
           /\ Len(cache) >= config.maxSize
           /\ \E k \in KeysOf(cache) : now - writtenAt[k] > config.ttl
           /\ Set(key, Payload(now))) =>
              \A k \in KeysOf(cache) \ KeysOf(cache') : now - writtenAt[k] > config.ttl]_vars

\* C39. Eviction goes by recency alone: when set evicts at capacity, the entry
\* it evicts is one whose lastAccessed is smallest among the stored entries,
\* expired or not; expired entries that were accessed later stay stored.
EvictionByRecency ==
    [][LET key == lastOp'.key IN
          (/\ lastOp'.op = "set"
           /\ config.enabled
           /\ Len(cache) >= config.maxSize
           /\ Set(key, Payload(now))) =>
              \E v \in KeysOf(cache) :
                  /\ \A k \in KeysOf(cache) :
                         MapGet(cache, v).lastAccessed <= MapGet(cache, k).lastAccessed
                  /\ KeysOf(cache') = (KeysOf(cache) \ {v}) \cup {key}]_vars

\* A set at capacity evicted an entry and left stored an expired entry, one
\* that had been hit after it was written
EvictionByRecencyWitness ==
    /\ lastOp.op = "set"
    /\ lastOp.removed = 1
    /\ Len(cache) = 2
    /\ \E n \in 1..Len(cache) :
          /\ cache[n].key # lastOp.key
          /\ now - cache[n].timestamp > config.ttl
          /\ cache[n].lastAccessed > cache[n].timestamp

----------------------------------------------------------------------------
(* Writes that fail *)

\* C40. Failed writes leave the cache untouched: an updateData or deleteData
\* that fails validation (path, docId or data missing) returns an error
\* without touching cache or upstream; a write leaves the stored map alone
\* while it awaits; one whose upstream write raised an error returns an error
\* (data = null) and leaves the stored map exactly as it was, no entry removed.
FailedWritesKeepCache ==
    [][/\ \A i \in 1..MaxCalls, call \in UpdateInputs \cup DeleteInputs :
             (/\ lastOp'.op \in {"updateData", "deleteData"}
              /\ lastOp'.log \in {"validation", "start"}
              /\ UpdateDataCall(i, call) \/ DeleteDataCall(i, call)) =>
                 /\ cache' = cache
                 /\ upstream' = upstream
                 /\ lastOp'.log = "validation" =>
                        (lastOp'.ret = "error" /\ crudEvent'.kind = "error" /\ calls' = calls)
       /\ \A i \in 1..MaxCalls :
             (/\ calls[i].phase = "settled"
              /\ calls[i].snapshot = "rejected"
              /\ lastOp'.log = "settled"
              /\ WriteResume(i)) =>
                 /\ lastOp'.ret = "error"
                 /\ crudEvent'.kind = "error"
                 /\ lastOp'.removed = 0
                 /\ cache' = cache
                 /\ config' = config]_vars

\* An updateData whose upstream write failed returned its error beside an
\* enabled cache that holds the document's entry and a query of the collection
FailedWritesKeepCacheWitness ==
    /\ lastOp.op = "updateData"
    /\ lastOp.log = "settled"
    /\ lastOp.ret = "error"
    /\ config.enabled
    /\ MapHas(cache, createKey(users, <<[name |-> "docId", value |-> "1"]>>))
    /\ MapHas(cache, createKey(users, <<>>))

====
